---- MODULE Spec2Model ----
(***************************************************************************)
(* A model of dlccontrol.DLCcontrol (src/dlccontrol.py): the host-side     *)
(* wrapper around a Toptica DLC's parameter tree.                          *)
(*                                                                         *)
(* The device is the function dev from parameter path to value: what      *)
(* self.dlc.<path>.get() returns and what self.dlc.<path>.set(v) writes.   *)
(* The wrapper's attributes keep their Python names.  Every property      *)
(* setter and every method is one action; the call it models, its          *)
(* argument, its outcome and the transport accesses, cache writes and      *)
(* prints it made, in program order, are recorded in last.                 *)
(*                                                                         *)
(* Units: volts and milliamperes are integers; the scan frequency is      *)
(* counted in hundredths of a hertz, so that the 0.02 Hz of line 214 is 2. *)
(* amplitude / 2 is kept exact by comparing doubled quantities.            *)
(***************************************************************************)
EXTENDS Integers, Sequences, FiniteSets, TLC

VARIABLES
    dev,                    \* the DLC's parameters, by path
    conn,                   \* the transport: "closed" or "open"
    _is_open,               \* DLCcontrol._is_open
    wl_setting_present,     \* DLCcontrol.wl_setting_present
    temp_setting_present,   \* DLCcontrol.temp_setting_present
    _lims,                  \* DLCcontrol._lims
    _scan_parameters,       \* DLCcontrol._scan_parameters (a dict)
    _scan_range,            \* DLCcontrol._scan_range
    _remote_parameters,     \* DLCcontrol._remote_parameters (unit -> dict)
    _remote_str,            \* DLCcontrol._remote_str
    _remote_unit,           \* DLCcontrol._remote_unit (the node's path)
    last,                   \* the last call and what it did
    externals,              \* external changes of the device so far
    scope,                  \* where a `with DLCcontrol(ip) as dlc:` stands
    snapshot,               \* the dict get_all_parameters returned last
    files                   \* the files on disk: path -> content

vars == <<dev, conn, _is_open, wl_setting_present, temp_setting_present, _lims,
          _scan_parameters, _scan_range, _remote_parameters, _remote_str,
          _remote_unit, last, externals, scope, snapshot, files>>

lifecycle == <<conn, _is_open, wl_setting_present, temp_setting_present, scope>>
session == <<lifecycle, snapshot, files>>
remote == <<_remote_parameters, _remote_str, _remote_unit>>
cache == <<_lims, _scan_parameters, _scan_range, _remote_parameters, _remote_str,
           _remote_unit>>

-----------------------------------------------------------------------------
(* Numbers that may be None or infinite: _lims holds None for an absent    *)
(* capability, _scan_range holds -inf and inf for the analogue outputs.    *)

Num(v) == [k |-> "num", v |-> v]
NegInf == [k |-> "-inf", v |-> 0]
PosInf == [k |-> "inf", v |-> 0]
None == [k |-> "None", v |-> 0]

Rank(e) == CASE e.k = "-inf" -> -1 [] e.k = "num" -> 0 [] e.k = "inf" -> 1

\* a < b and a <= b of Python floats (None is never compared)
Lt(a, b) == IF a.k = "num" /\ b.k = "num" THEN a.v < b.v ELSE Rank(a) < Rank(b)
Le(a, b) == IF a.k = "num" /\ b.k = "num" THEN a.v <= b.v ELSE Rank(a) <= Rank(b)

\* 2 * e
Twice(e) == IF e.k = "num" THEN Num(2 * e.v) ELSE e

Min2(a, b) == IF a <= b THEN a ELSE b
Max2(a, b) == IF a >= b THEN a ELSE b

-----------------------------------------------------------------------------
(* Strings are sequences of characters, so that str.upper, str.lower and   *)
(* str.title are computed, not assumed.                                    *)

LowerLetters == <<"a", "b", "c", "d", "e", "f", "g", "h", "i", "j", "k", "l", "m",
                  "n", "o", "p", "q", "r", "s", "t", "u", "v", "w", "x", "y", "z">>
UpperLetters == <<"A", "B", "C", "D", "E", "F", "G", "H", "I", "J", "K", "L", "M",
                  "N", "O", "P", "Q", "R", "S", "T", "U", "V", "W", "X", "Y", "Z">>

Letters == 1..Len(LowerLetters)
IsLower(c) == \E i \in Letters : LowerLetters[i] = c
IsUpper(c) == \E i \in Letters : UpperLetters[i] = c
IsCased(c) == IsLower(c) \/ IsUpper(c)

\* the characters of the strings of this model
Chars == {LowerLetters[i] : i \in Letters} \cup {UpperLetters[i] : i \in Letters}
         \cup {"1", "2", "3", "4", "5"}

\* the upper-case and the lower-case form of each character
ToUpper ==
    [c \in Chars |->
        IF IsLower(c) THEN UpperLetters[CHOOSE i \in Letters : LowerLetters[i] = c]
        ELSE c]
ToLower ==
    [c \in Chars |->
        IF IsUpper(c) THEN LowerLetters[CHOOSE i \in Letters : UpperLetters[i] = c]
        ELSE c]
Cased == [c \in Chars |-> IsCased(c)]

UpperChar(c) == ToUpper[c]
LowerChar(c) == ToLower[c]

\* str.upper(), str.lower()
StrUpper(s) == [i \in 1..Len(s) |-> UpperChar(s[i])]
StrLower(s) == [i \in 1..Len(s) |-> LowerChar(s[i])]

\* str.title(): a cased character is upper-cased when the character before it
\* is not cased (or there is none), and lower-cased otherwise
StrTitle(s) ==
    [i \in 1..Len(s) |->
        IF i > 1 /\ Cased[s[i - 1]] THEN LowerChar(s[i]) ELSE UpperChar(s[i])]

-----------------------------------------------------------------------------
(* Python values handed to the setters that resolve a name.                *)

\* (a str has its characters in s, the other types their number in n)

Str(s) == [type |-> "str", s |-> s, n |-> 0]
OutputChannelValue(n) == [type |-> "OutputChannel", s |-> <<>>, n |-> n]
InputChannelValue(n) == [type |-> "InputChannel", s |-> <<>>, n |-> n]
IntValue(n) == [type |-> "int", s |-> <<>>, n |-> n]

PC == 50
CC == 51
OutA == 20
OutB == 21

\* class OutputChannel: member name -> value
OutputChannel ==
    (<<"P", "C">> :> PC) @@ (<<"C", "C">> :> CC)
    @@ (<<"O", "u", "t", "A">> :> OutA) @@ (<<"O", "u", "t", "B">> :> OutB)

OutputChannelCodes == {OutputChannel[n] : n \in DOMAIN OutputChannel}

NotSelected == -3
Fine1 == 0
Fine2 == 1
Fast3 == 2
Fast4 == 3

\* class InputChannel: member name -> value
InputChannel ==
    (<<"N", "o", "t", "S", "e", "l", "e", "c", "t", "e", "d">> :> NotSelected)
    @@ (<<"F", "i", "n", "e", "1">> :> Fine1) @@ (<<"F", "i", "n", "e", "2">> :> Fine2)
    @@ (<<"F", "a", "s", "t", "3">> :> Fast3) @@ (<<"F", "a", "s", "t", "4">> :> Fast4)

InputChannelCodes == {InputChannel[n] : n \in DOMAIN InputChannel}

\* the outcome of a lookup: the code, or KeyError
Found(n) == [ok |-> TRUE, num |-> n]
KeyError == [ok |-> FALSE, num |-> 0]

\* Enum[name]
EnumLookup(enum, name) == IF name \in DOMAIN enum THEN Found(enum[name]) ELSE KeyError

\* the same try block, had an unknown name fallen back to the piezo
OutputChannelNumDefaulting(val) ==
    IF val.type = "OutputChannel" THEN Found(val.n)
    ELSE IF val.type = "str" /\ StrUpper(val.s) \in DOMAIN OutputChannel
    THEN Found(OutputChannel[StrUpper(val.s)])
    ELSE Found(PC)

\* the try block of the scan_output_channel setter
OutputChannelNum(val) ==
    IF val.type = "OutputChannel" THEN Found(val.n)
    ELSE IF val.type = "str" THEN EnumLookup(OutputChannel, StrUpper(val.s))
    ELSE KeyError

\* the try block of the remote_signal setter
InputChannelNum(val) ==
    IF val.type = "InputChannel" THEN Found(val.n)
    ELSE IF val.type = "str" THEN EnumLookup(InputChannel, StrTitle(val.s))
    ELSE KeyError

-----------------------------------------------------------------------------
(* The transport.  An access fails when the connection is not open, or     *)
(* when it is the access (counted from 1 within the call) that the         *)
(* environment makes fail; a failed set() leaves the device as it was.     *)

\* the same node, had the pc branch been copied from the cc branch unchanged
RemoteNodeAlwaysCurrent(unit) == "laser1.dl.cc.external_input"

RemoteNode(unit) == "laser1.dl." \o unit \o ".external_input"

ScanPaths == <<"laser1.scan.enabled", "laser1.scan.output_channel",
               "laser1.scan.frequency", "laser1.scan.amplitude",
               "laser1.scan.offset", "laser1.scan.start", "laser1.scan.end">>

\* the position (from 1) in a run of n accesses, the first of them being the
\* call's access number `first`, of the one that fails; 0 when none does
\* the connection being c while the accesses are made
FailAt(c, fail, first, n) ==
    IF n = 0 THEN 0
    ELSE IF c # "open" THEN 1
    ELSE IF first <= fail /\ fail < first + n THEN fail - first + 1
    ELSE 0

FailPos(fail, first, n) == FailAt(conn, fail, first, n)

\* the events of reading `paths` in order, up to and including a failing one
GetEvents(paths, pos) ==
    [i \in 1..(IF pos = 0 THEN Len(paths) ELSE pos) |->
        IF i = pos THEN <<"get-failed", paths[i], "error">>
        ELSE <<"get", paths[i], dev[paths[i]]>>]

SetEvent(path, val) == <<"set", path, val>>
SetFailed(path, val) == <<"set-failed", path, val>>
Mirror(key, val) == <<"mirror", key, val>>
Printed(text) == <<"print", text, "stdout">>

Done(op, arg, result, io) ==
    last' = [op |-> op, arg |-> arg, result |-> result, io |-> io]

-----------------------------------------------------------------------------
(* Limits and the scan range.                                              *)

FMIN == 2
FMAX == 40000
CMIN == 0

\* the dict literal of get_limits_from_dlc, before the optional updates
BaseLimits(d) ==
    [vmin |-> Num(d["laser1.dl.pc.voltage_min"]),
     vmax |-> Num(d["laser1.dl.pc.voltage_max"]),
     cmin |-> Num(CMIN),
     cmax |-> Num(d["laser1.dl.cc.current_clip"]),
     fmin |-> Num(FMIN),
     fmax |-> Num(FMAX),
     tmin |-> None, tmax |-> None, wlmin |-> None, wlmax |-> None]

WithWavelengthLimits(lims, d) ==
    [lims EXCEPT !.wlmin = Num(d["laser1.ctl.wavelength_min"]),
                 !.wlmax = Num(d["laser1.ctl.wavelength_max"])]

WithTemperatureLimits(lims, d) ==
    [lims EXCEPT !.tmin = Num(d["laser1.dl.tc.temp_set_min"]),
                 !.tmax = Num(d["laser1.dl.tc.temp_set_max"])]

_vrange(lims) == <<lims.vmin, lims.vmax>>
_crange(lims) == <<lims.cmin, lims.cmax>>
_trange(lims) == <<lims.tmin, lims.tmax>>
_wlrange(lims) == <<lims.wlmin, lims.wlmax>>

\* the same test, had the two bounds themselves been refused
_check_value_exclusive(val, permitted_range) ==
    Lt(permitted_range[1], Num(val)) /\ Lt(Num(val), permitted_range[2])

\* _check_value: TRUE when it returns, FALSE when it raises OutOfRangeError
_check_value(val, permitted_range) ==
    Le(permitted_range[1], Num(val)) /\ Le(Num(val), permitted_range[2])

\* the same, had the else branch kept the voltage range
ScanRangeOfAlwaysLimited(channel, lims) ==
    IF channel = CC THEN _crange(lims) ELSE _vrange(lims)

\* the range _update_scan_range_attribute stores for a channel
ScanRangeOf(channel, lims) ==
    IF channel = CC THEN _crange(lims)
    ELSE IF channel = PC THEN _vrange(lims)
    ELSE <<NegInf, PosInf>>

\* what _update_scan_range_attribute prints for a channel
ScanRangeWarning(channel) ==
    IF channel = CC \/ channel = PC THEN <<>>
    ELSE <<Printed("(!) Warning: Scan range for OutA and OutB is not limted")>>

\* the same test, had it compared the offset alone with the range
EnvelopeOutsideOffsetOnly(offset, amplitude, range) ==
    Lt(Num(2 * offset), Twice(range[1])) \/ Lt(Twice(range[2]), Num(2 * offset))

\* the test of the scan_amplitude and scan_offset setters on
\* new_range = [offset - amplitude / 2, offset + amplitude / 2]:
\* TRUE when OutOfRangeError is raised
EnvelopeOutside(offset, amplitude, range) ==
    LET lo2 == Min2(2 * offset - amplitude, 2 * offset + amplitude)
        hi2 == Max2(2 * offset - amplitude, 2 * offset + amplitude)
    IN  Lt(Num(lo2), Twice(range[1])) \/ Lt(Twice(range[2]), Num(hi2))

\* a dict with d[key] = val assigned
DictSet(d, key, val) ==
    [k \in DOMAIN d \cup {key} |-> IF k = key THEN val ELSE d[k]]

\* the dict literal of get_scan_parameters
ScanDict(d) ==
    ("enabled" :> d["laser1.scan.enabled"])
    @@ ("output channel" :> d["laser1.scan.output_channel"])
    @@ ("frequency" :> d["laser1.scan.frequency"])
    @@ ("amplitude" :> d["laser1.scan.amplitude"])
    @@ ("offset" :> d["laser1.scan.offset"])
    @@ ("start" :> d["laser1.scan.start"])
    @@ ("end" :> d["laser1.scan.end"])

\* one entry of _remote_parameters, as get_remote_parameters reads it
RemoteDict(d, unit) ==
    [enabled |-> d[RemoteNode(unit) \o ".enabled"],
     factor |-> d[RemoteNode(unit) \o ".factor"],
     signal |-> d[RemoteNode(unit) \o ".signal"]]

-----------------------------------------------------------------------------
(* The dict get_all_parameters returns holds, under "scan" and "analogue   *)
(* remote", the very dict objects that _scan_parameters and                *)
(* _remote_parameters are bound to at that time.  While a section is such  *)
(* an alias its content is that of the attribute; it becomes a value of    *)
(* its own when the attribute is bound to a new dict.                      *)

NoSnapshot ==
    [taken |-> FALSE, scan_alias |-> FALSE, remote_alias |-> FALSE,
     scan |-> <<>>, remote |-> <<>>, wavelength |-> <<>>, temperature |-> <<>>]

\* what snapshot["scan"] and snapshot["analogue remote"] hold now
SnapshotScan == IF snapshot.scan_alias THEN _scan_parameters ELSE snapshot.scan
SnapshotRemote == IF snapshot.remote_alias THEN _remote_parameters ELSE snapshot.remote

\* the snapshot once _scan_parameters has been bound to a new dict
ScanRebound(snap) ==
    IF snap.scan_alias
    THEN [snap EXCEPT !.scan_alias = FALSE, !.scan = _scan_parameters]
    ELSE snap

\* the snapshot once _remote_parameters has been bound to a new dict
RemoteRebound(snap) ==
    IF snap.remote_alias
    THEN [snap EXCEPT !.remote_alias = FALSE, !.remote = _remote_parameters]
    ELSE snap

-----------------------------------------------------------------------------
(* Refreshing the caches from the device.                                  *)

\* get_limits_from_dlc, its accesses numbered from `first`: the value of
\* _lims it leaves, its events, and whether a get() raised.  The dict is
\* assigned before the optional updates read their limits.
LimitsReadOn(c, fail, first) ==
    LET base == <<"laser1.dl.pc.voltage_min", "laser1.dl.pc.voltage_max",
                  "laser1.dl.cc.current_clip">>
        wl == <<"laser1.ctl.wavelength_min", "laser1.ctl.wavelength_max">>
        tc == <<"laser1.dl.tc.temp_set_min", "laser1.dl.tc.temp_set_max">>
        nwl == IF wl_setting_present THEN 2 ELSE 0
        ntc == IF temp_setting_present THEN 2 ELSE 0
        p1 == FailAt(c, fail, first, 3)
        p2 == FailAt(c, fail, first + 3, nwl)
        p3 == FailAt(c, fail, first + 3 + nwl, ntc)
        l1 == BaseLimits(dev)
        l2 == IF wl_setting_present THEN WithWavelengthLimits(l1, dev) ELSE l1
        l3 == IF temp_setting_present THEN WithTemperatureLimits(l2, dev) ELSE l2
        e1 == GetEvents(base, p1)
        e2 == IF wl_setting_present THEN GetEvents(wl, p2) ELSE <<>>
        e3 == IF temp_setting_present THEN GetEvents(tc, p3) ELSE <<>>
    IN  IF p1 # 0 THEN [lims |-> _lims, io |-> e1, raised |-> TRUE]
        ELSE IF p2 # 0 THEN [lims |-> l1, io |-> e1 \o e2, raised |-> TRUE]
        ELSE IF p3 # 0 THEN [lims |-> l2, io |-> e1 \o e2 \o e3, raised |-> TRUE]
        ELSE [lims |-> l3, io |-> e1 \o e2 \o e3, raised |-> FALSE]

LimitsRead(fail, first) == LimitsReadOn(conn, fail, first)

get_limits_from_dlc(fail) ==
    LET r == LimitsRead(fail, 1)
    IN  /\ _lims' = r.lims
        /\ Done("get_limits_from_dlc", "-", IF r.raised THEN "TransportError" ELSE "ok",
                r.io)
        /\ UNCHANGED <<dev, session, _scan_parameters, _scan_range, remote, externals>>

\* the same, had it handed out the cached dict without asking the device
ScanReadCached(c, fail, first) ==
    [params |-> _scan_parameters, io |-> <<>>, raised |-> FALSE]

\* get_scan_parameters, its accesses numbered from `first`: the value of
\* _scan_parameters it leaves, its events, and whether a get() raised
ScanRead(c, fail, first) ==
    LET pos == FailAt(c, fail, first, Len(ScanPaths))
    IN  [params |-> IF pos = 0 THEN ScanDict(dev) ELSE _scan_parameters,
         io |-> GetEvents(ScanPaths, pos),
         raised |-> pos # 0]

get_scan_parameters(fail) ==
    LET r == ScanRead(conn, fail, 1)
    IN  /\ _scan_parameters' = r.params
        /\ snapshot' = IF r.raised THEN snapshot ELSE ScanRebound(snapshot)
        /\ Done("get_scan_parameters", "-", IF r.raised THEN "TransportError" ELSE "ok",
                r.io)
        /\ UNCHANGED <<dev, lifecycle, files, _lims, _scan_range, remote, externals>>

-----------------------------------------------------------------------------
(* The scan setters.                                                       *)

\* the dict had `d[key] = val` come before the set()
MirroredAlways(ok, d, key, val) == DictSet(d, key, val)

\* the dict after `<node>.set(val); d[key] = val`, the set() having returned
\* (ok) or raised
MirroredAfter(ok, d, key, val) == IF ok THEN DictSet(d, key, val) ELSE d

\* the events of `<node>.set(val)` followed by the cache writes `mirrors`
WriteEvents(ok, path, val, mirrors) ==
    IF ok THEN <<SetEvent(path, val)>> \o mirrors ELSE <<SetFailed(path, val)>>

Outcome(ok) == IF ok THEN "ok" ELSE "TransportError"

scan_enabled_setter(val, fail) ==
    LET path == "laser1.scan.enabled"
        ok == FailPos(fail, 1, 1) = 0
    IN  /\ dev' = IF ok THEN [dev EXCEPT ![path] = val] ELSE dev
        /\ _scan_parameters' = MirroredAfter(ok, _scan_parameters, "enabled", val)
        /\ Done("scan_enabled", val, Outcome(ok),
                WriteEvents(ok, path, val, <<Mirror("enabled", val)>>))
        /\ UNCHANGED <<session, _lims, _scan_range, remote, externals>>

\* the key the scan_output_channel setter assigns in _scan_parameters
ChannelMirrorKey == "scan_output_channel"

scan_output_channel_setter(val, fail) ==
    LET path == "laser1.scan.output_channel"
        r == OutputChannelNum(val)
        ok == FailPos(fail, 1, 1) = 0
        range == ScanRangeOf(r.num, _lims)
    IN  /\ UNCHANGED <<session, _lims, remote, externals>>
        /\ IF ~r.ok
           THEN /\ Done("scan_output_channel", val, "ValueError", <<>>)
                /\ UNCHANGED <<dev, _scan_parameters, _scan_range>>
           ELSE /\ dev' = IF ok THEN [dev EXCEPT ![path] = r.num] ELSE dev
                /\ _scan_parameters' =
                       MirroredAfter(ok, _scan_parameters, ChannelMirrorKey, r.num)
                /\ _scan_range' = IF ok THEN range ELSE _scan_range
                /\ Done("scan_output_channel", val, Outcome(ok),
                        WriteEvents(ok, path, r.num,
                                    <<Mirror(ChannelMirrorKey, r.num),
                                      Mirror("_scan_range", range)>>
                                    \o ScanRangeWarning(r.num)))

scan_frequency_setter(val, fail) ==
    LET path == "laser1.scan.frequency"
        ok == FailPos(fail, 1, 1) = 0
    IN  /\ UNCHANGED <<session, _lims, _scan_range, remote, externals>>
        /\ IF ~_check_value(val, <<_lims.fmin, _lims.fmax>>)
           THEN /\ Done("scan_frequency", val, "OutOfRangeError", <<>>)
                /\ UNCHANGED <<dev, _scan_parameters>>
           ELSE /\ dev' = IF ok THEN [dev EXCEPT ![path] = val] ELSE dev
                /\ _scan_parameters' = MirroredAfter(ok, _scan_parameters, "frequency", val)
                /\ Done("scan_frequency", val, Outcome(ok),
                        WriteEvents(ok, path, val, <<Mirror("frequency", val)>>))

\* the same, had the setter taken the offset from _scan_parameters
AmplitudeSetterCachedOffset == _scan_parameters["offset"]

\* offset = self.scan_offset, in the scan_amplitude setter
AmplitudeSetterOffset == dev["laser1.scan.offset"]

scan_amplitude_setter(val, fail) ==
    LET path == "laser1.scan.amplitude"
        pos == FailPos(fail, 1, 1)
        gets == GetEvents(<<"laser1.scan.offset">>, pos)
        ok == FailPos(fail, 2, 1) = 0
    IN  /\ UNCHANGED <<session, _lims, _scan_range, remote, externals>>
        /\ IF pos # 0
           THEN /\ Done("scan_amplitude", val, "TransportError", gets)
                /\ UNCHANGED <<dev, _scan_parameters>>
           ELSE IF EnvelopeOutside(AmplitudeSetterOffset, val, _scan_range)
           THEN /\ Done("scan_amplitude", val, "OutOfRangeError", gets)
                /\ UNCHANGED <<dev, _scan_parameters>>
           ELSE /\ dev' = IF ok THEN [dev EXCEPT ![path] = val] ELSE dev
                /\ _scan_parameters' = MirroredAfter(ok, _scan_parameters, "amplitude", val)
                /\ Done("scan_amplitude", val, Outcome(ok),
                        gets \o WriteEvents(ok, path, val, <<Mirror("amplitude", val)>>))

\* amplitude = self.scan_amplitude, in the scan_offset setter
OffsetSetterAmplitude == dev["laser1.scan.amplitude"]

scan_offset_setter(val, fail) ==
    LET path == "laser1.scan.offset"
        pos == FailPos(fail, 1, 1)
        gets == GetEvents(<<"laser1.scan.amplitude">>, pos)
        ok == FailPos(fail, 2, 1) = 0
    IN  /\ UNCHANGED <<session, _lims, _scan_range, remote, externals>>
        /\ IF pos # 0
           THEN /\ Done("scan_offset", val, "TransportError", gets)
                /\ UNCHANGED <<dev, _scan_parameters>>
           ELSE IF EnvelopeOutside(val, OffsetSetterAmplitude, _scan_range)
           THEN /\ Done("scan_offset", val, "OutOfRangeError", gets)
                /\ UNCHANGED <<dev, _scan_parameters>>
           ELSE /\ dev' = IF ok THEN [dev EXCEPT ![path] = val] ELSE dev
                /\ _scan_parameters' = MirroredAfter(ok, _scan_parameters, "offset", val)
                /\ Done("scan_offset", val, Outcome(ok),
                        gets \o WriteEvents(ok, path, val, <<Mirror("offset", val)>>))

scan_start_setter(val, fail) ==
    LET path == "laser1.scan.start"
        ok == FailPos(fail, 1, 1) = 0
    IN  /\ UNCHANGED <<session, _lims, _scan_range, remote, externals>>
        /\ IF ~_check_value(val, _scan_range)
           THEN /\ Done("scan_start", val, "OutOfRangeError", <<>>)
                /\ UNCHANGED <<dev, _scan_parameters>>
           ELSE /\ dev' = IF ok THEN [dev EXCEPT ![path] = val] ELSE dev
                /\ _scan_parameters' = MirroredAfter(ok, _scan_parameters, "start", val)
                /\ Done("scan_start", val, Outcome(ok),
                        WriteEvents(ok, path, val, <<Mirror("start", val)>>))

scan_end_setter(val, fail) ==
    LET path == "laser1.scan.end"
        ok == FailPos(fail, 1, 1) = 0
    IN  /\ UNCHANGED <<session, _lims, _scan_range, remote, externals>>
        /\ IF ~_check_value(val, _scan_range)
           THEN /\ Done("scan_end", val, "OutOfRangeError", <<>>)
                /\ UNCHANGED <<dev, _scan_parameters>>
           ELSE /\ dev' = IF ok THEN [dev EXCEPT ![path] = val] ELSE dev
                /\ _scan_parameters' = MirroredAfter(ok, _scan_parameters, "end", val)
                /\ Done("scan_end", val, Outcome(ok),
                        WriteEvents(ok, path, val, <<Mirror("end", val)>>))

-----------------------------------------------------------------------------
(* The wavelength and temperature setpoints.                               *)

\* how a setpoint setter begins, had `val is None` been tested first
SetpointEntryNoneFirst(present, val) ==
    IF val = None THEN "return"
    ELSE IF ~present THEN "RuntimeError"
    ELSE "set"

\* how a setpoint setter begins: it raises RuntimeError when the setting is
\* not present, returns at once when val is None, and goes on to set otherwise
SetpointEntry(present, val) ==
    IF ~present THEN "RuntimeError"
    ELSE IF val = None THEN "return"
    ELSE "set"

\* val is None or a number
wavelength_setpoint_setter(val, fail) ==
    LET path == "laser1.ctl.wavelength_set"
        entry == SetpointEntry(wl_setting_present, val)
        refetch == _wlrange(_lims)[1] = None
        r == IF refetch THEN LimitsRead(fail, 1)
             ELSE [lims |-> _lims, io |-> <<>>, raised |-> FALSE]
        ok == FailPos(fail, Len(r.io) + 1, 1) = 0
    IN  /\ UNCHANGED <<session, _scan_parameters, _scan_range, remote, externals>>
        /\ IF entry = "RuntimeError"
           THEN /\ Done("wavelength_setpoint", val, "RuntimeError", <<>>)
                /\ UNCHANGED <<dev, _lims>>
           ELSE IF entry = "return"
           THEN /\ Done("wavelength_setpoint", val, "ok", <<>>)
                /\ UNCHANGED <<dev, _lims>>
           ELSE IF r.raised
           THEN /\ Done("wavelength_setpoint", val, "TransportError", r.io)
                /\ _lims' = r.lims
                /\ UNCHANGED dev
           ELSE IF ~_check_value(val.v, _wlrange(r.lims))
           THEN /\ Done("wavelength_setpoint", val, "OutOfRangeError", r.io)
                /\ _lims' = r.lims
                /\ UNCHANGED dev
           ELSE /\ dev' = IF ok THEN [dev EXCEPT ![path] = val.v] ELSE dev
                /\ _lims' = r.lims
                /\ Done("wavelength_setpoint", val, Outcome(ok),
                        r.io \o WriteEvents(ok, path, val.v, <<>>))

temp_setpoint_setter(val, fail) ==
    LET path == "laser1.dl.tc.temp_set"
        entry == SetpointEntry(temp_setting_present, val)
        refetch == _trange(_lims)[1] = None
        r == IF refetch THEN LimitsRead(fail, 1)
             ELSE [lims |-> _lims, io |-> <<>>, raised |-> FALSE]
        ok == FailPos(fail, Len(r.io) + 1, 1) = 0
    IN  /\ UNCHANGED <<session, _scan_parameters, _scan_range, remote, externals>>
        /\ IF entry = "RuntimeError"
           THEN /\ Done("temp_setpoint", val, "RuntimeError", <<>>)
                /\ UNCHANGED <<dev, _lims>>
           ELSE IF entry = "return"
           THEN /\ Done("temp_setpoint", val, "ok", <<>>)
                /\ UNCHANGED <<dev, _lims>>
           ELSE IF r.raised
           THEN /\ Done("temp_setpoint", val, "TransportError", r.io)
                /\ _lims' = r.lims
                /\ UNCHANGED dev
           ELSE IF ~_check_value(val.v, _trange(r.lims))
           THEN /\ Done("temp_setpoint", val, "OutOfRangeError", r.io)
                /\ _lims' = r.lims
                /\ UNCHANGED dev
           ELSE /\ dev' = IF ok THEN [dev EXCEPT ![path] = val.v] ELSE dev
                /\ _lims' = r.lims
                /\ Done("temp_setpoint", val, Outcome(ok),
                        r.io \o WriteEvents(ok, path, val.v, <<>>))

\* a getter of a capability, called as `op`: None without access when the
\* setting is not present, else what get() returns
Getter(op, present, path, fail) ==
    LET pos == FailPos(fail, 1, 1)
    IN  /\ UNCHANGED <<dev, session, cache, externals>>
        /\ IF ~present
           THEN Done(op, "-", "ok", <<<<"return", op, None>>>>)
           ELSE IF pos # 0
           THEN Done(op, "-", "TransportError", GetEvents(<<path>>, pos))
           ELSE Done(op, "-", "ok",
                     GetEvents(<<path>>, 0) \o <<<<"return", op, Num(dev[path])>>>>)

wavelength_actual_getter(fail) ==
    Getter("wavelength_actual.get", wl_setting_present, "laser1.ctl.wavelength_act", fail)

wavelength_setpoint_getter(fail) ==
    Getter("wavelength_setpoint.get", wl_setting_present, "laser1.ctl.wavelength_set", fail)

temp_actual_getter(fail) ==
    Getter("temp_actual.get", temp_setting_present, "laser1.dl.tc.temp_act", fail)

temp_setpoint_getter(fail) ==
    Getter("temp_setpoint.get", temp_setting_present, "laser1.dl.tc.temp_set", fail)

-----------------------------------------------------------------------------
(* The emission: the button on the DLC and the current to the laser.       *)

\* a read-only flag of the device, read as `op`
FlagGetter(op, path, fail) ==
    LET pos == FailPos(fail, 1, 1)
    IN  /\ UNCHANGED <<dev, session, cache, externals>>
        /\ IF pos # 0
           THEN Done(op, "-", "TransportError", GetEvents(<<path>>, pos))
           ELSE Done(op, "-", "ok",
                     GetEvents(<<path>>, 0) \o <<<<"return", op, dev[path]>>>>)

emission_getter(fail) == FlagGetter("emission.get", "emission", fail)

emission_button_getter(fail) ==
    FlagGetter("emission_button.get", "emission_button_enabled", fail)

current_enabled_getter(fail) ==
    FlagGetter("current_enabled.get", "laser1.dl.cc.enabled", fail)

EmissionWarning ==
    Printed("(!) Emission button on DLC not enabled, so cannot enable emission")

\* whether the setter goes on to its set(), had the warning been a refusal
CurrentSetReachedUnlessWarned(val, button) == ~(val /\ ~button)

\* whether the current_enabled setter goes on to its set() once the button
\* has been looked at: nothing returns or raises between the print and the
\* set()
CurrentSetReached(val, button) == TRUE

\* `val and not self.emission_button` reads the button only when val is true
current_enabled_setter(val, fail) ==
    LET path == "laser1.dl.cc.enabled"
        pos == IF val THEN FailPos(fail, 1, 1) ELSE 0
        gets == IF val THEN GetEvents(<<"emission_button_enabled">>, pos) ELSE <<>>
        button == dev["emission_button_enabled"]
        warned == IF val /\ ~button THEN <<EmissionWarning>> ELSE <<>>
        ok == FailPos(fail, Len(gets) + 1, 1) = 0
    IN  /\ UNCHANGED <<session, cache, externals>>
        /\ IF pos # 0
           THEN /\ Done("current_enabled", val, "TransportError", gets)
                /\ UNCHANGED dev
           ELSE IF ~CurrentSetReached(val, button)
           THEN /\ Done("current_enabled", val, "ok", gets \o warned)
                /\ UNCHANGED dev
           ELSE /\ dev' = IF ok THEN [dev EXCEPT ![path] = val] ELSE dev
                /\ Done("current_enabled", val, Outcome(ok),
                        gets \o warned \o WriteEvents(ok, path, val, <<>>))

-----------------------------------------------------------------------------
(* The analogue remote controls.                                           *)

\* the remote_enabled getter: self._remote_unit.enabled.get()
remote_enabled == dev[_remote_unit \o ".enabled"]

\* the same choice, had the second branch been a plain else
SelectedUnitElsePc(select) ==
    IF StrLower(select) = <<"c", "c">> THEN "cc" ELSE "pc"

\* the same choice, had the setter compared select itself with "cc" and "pc"
SelectedUnitCaseSensitive(select) ==
    IF select = <<"c", "c">> THEN "cc"
    ELSE IF select = <<"p", "c">> THEN "pc"
    ELSE ""

\* the unit the remote_select setter selects for a str, or "" (ValueError)
SelectedUnit(select) ==
    IF StrLower(select) = <<"c", "c">> THEN "cc"
    ELSE IF StrLower(select) = <<"p", "c">> THEN "pc"
    ELSE ""

remote_select_setter(select) ==
    /\ UNCHANGED <<dev, session, _lims, _scan_parameters, _scan_range,
                   _remote_parameters, externals>>
    /\ IF select.type # "str"
       THEN /\ Done("remote_select", select, "AttributeError", <<>>)
            /\ UNCHANGED <<_remote_str, _remote_unit>>
       ELSE IF SelectedUnit(select.s) = ""
       THEN /\ Done("remote_select", select, "ValueError", <<>>)
            /\ UNCHANGED <<_remote_str, _remote_unit>>
       ELSE /\ _remote_str' = SelectedUnit(select.s)
            /\ _remote_unit' = RemoteNode(SelectedUnit(select.s))
            /\ Done("remote_select", select, "ok",
                    <<Mirror("_remote_str", SelectedUnit(select.s))>>)

\* the body of a remote setter from its set() on:
\*   self._remote_unit.<field>.set(num)
\*   self._remote_parameters[self._remote_str][<field>] = num
\* the subscript raises KeyError when the unit has no entry
RemoteWrite(op, arg, field, num, fail) ==
    LET path == _remote_unit \o "." \o field
        ok == FailPos(fail, 1, 1) = 0
        has == _remote_str \in DOMAIN _remote_parameters
    IN  /\ dev' = IF ok THEN [dev EXCEPT ![path] = num] ELSE dev
        /\ _remote_parameters' =
               IF ok /\ has
               THEN [_remote_parameters EXCEPT
                        ![_remote_str] = MirroredAfter(ok, @, field, num)]
               ELSE _remote_parameters
        /\ Done(op, arg,
                IF ~ok THEN "TransportError" ELSE IF has THEN "ok" ELSE "KeyError",
                WriteEvents(ok, path, num,
                            IF has THEN <<Mirror(field, num)>> ELSE <<>>))

remote_enabled_setter(val, fail) ==
    /\ RemoteWrite("remote_enabled", val, "enabled", val, fail)
    /\ UNCHANGED <<session, _lims, _scan_parameters, _scan_range, _remote_str,
                   _remote_unit, externals>>

remote_factor_setter(val, fail) ==
    /\ RemoteWrite("remote_factor", val, "factor", val, fail)
    /\ UNCHANGED <<session, _lims, _scan_parameters, _scan_range, _remote_str,
                   _remote_unit, externals>>

remote_signal_setter(val, fail) ==
    LET r == InputChannelNum(val)
    IN  /\ UNCHANGED <<session, _lims, _scan_parameters, _scan_range, _remote_str,
                       _remote_unit, externals>>
        /\ IF ~r.ok
           THEN /\ Done("remote_signal", val, "ValueError", <<>>)
                /\ UNCHANGED <<dev, _remote_parameters>>
           ELSE RemoteWrite("remote_signal", val, "signal", r.num, fail)

\* the same read, had it put the cursor back where it was
RemoteReadCursorKept(c, fail, first) ==
    LET paths(unit) == <<RemoteNode(unit) \o ".enabled", RemoteNode(unit) \o ".factor",
                         RemoteNode(unit) \o ".signal">>
        p1 == FailAt(c, fail, first, 3)
        p2 == FailAt(c, fail, first + 3, 3)
        e1 == <<Mirror("_remote_str", "cc")>> \o GetEvents(paths("cc"), p1)
        e2 == <<Mirror("_remote_str", "pc")>> \o GetEvents(paths("pc"), p2)
        cc == "cc" :> RemoteDict(dev, "cc")
        pc == "pc" :> RemoteDict(dev, "pc")
        before == IF _remote_str \in {"cc", "pc"} THEN _remote_str ELSE "cc"
    IN  IF p1 # 0
        THEN [params |-> <<>>, str |-> before, io |-> e1, raised |-> TRUE]
        ELSE [params |-> IF p2 # 0 THEN cc ELSE cc @@ pc, str |-> before,
              io |-> e1 \o e2, raised |-> p2 # 0]

\* get_remote_parameters: the dict is emptied first, then filled unit by unit,
\* each unit selected before its three reads
\* its accesses numbered from `first`: the dict and the cursor it leaves, its
\* events (three get() for each unit), and whether a get() raised
RemoteRead(c, fail, first) ==
    LET paths(unit) == <<RemoteNode(unit) \o ".enabled", RemoteNode(unit) \o ".factor",
                         RemoteNode(unit) \o ".signal">>
        p1 == FailAt(c, fail, first, 3)
        p2 == FailAt(c, fail, first + 3, 3)
        e1 == <<Mirror("_remote_str", "cc")>> \o GetEvents(paths("cc"), p1)
        e2 == <<Mirror("_remote_str", "pc")>> \o GetEvents(paths("pc"), p2)
        cc == "cc" :> RemoteDict(dev, "cc")
        pc == "pc" :> RemoteDict(dev, "pc")
    IN  IF p1 # 0
        THEN [params |-> <<>>, str |-> "cc", io |-> e1, raised |-> TRUE]
        ELSE [params |-> IF p2 # 0 THEN cc ELSE cc @@ pc, str |-> "pc",
              io |-> e1 \o e2, raised |-> p2 # 0]

get_remote_parameters(fail) ==
    LET r == RemoteRead(conn, fail, 1)
    IN  /\ UNCHANGED <<dev, lifecycle, files, _lims, _scan_parameters, _scan_range,
                       externals>>
        /\ snapshot' = RemoteRebound(snapshot)
        /\ _remote_parameters' = r.params
        /\ _remote_str' = r.str
        /\ _remote_unit' = RemoteNode(r.str)
        /\ Done("get_remote_parameters", "-",
                IF r.raised THEN "TransportError" ELSE "ok", r.io)

-----------------------------------------------------------------------------
(* All the parameters at once, and their file.                             *)

\* a pair of getters of a capability: None each without access when the
\* capability is absent, else the two get() in order
PairRead(present, paths, c, fail, first) ==
    LET pos == FailAt(c, fail, first, IF present THEN 2 ELSE 0)
    IN  [vals |-> IF present THEN <<Num(dev[paths[1]]), Num(dev[paths[2]])>>
                  ELSE <<None, None>>,
         io |-> IF present THEN GetEvents(paths, pos) ELSE <<>>,
         raised |-> pos # 0]

\* the scan section of params, had it been taken from the attribute as it is
\* instead of from a fresh get_scan_parameters()
ParamsScanCached(read) == _scan_parameters

\* "scan": self.get_scan_parameters()
ParamsScan(read) == read.params

\* the body of get_all_parameters: the sections of params, the events and
\* whether a get() raised; the setpoint and the actual value of the
\* wavelength and of the temperature are read first, then the scan
AllRead(fail) ==
    LET nwl == IF wl_setting_present THEN 2 ELSE 0
        ntc == IF temp_setting_present THEN 2 ELSE 0
        w == PairRead(wl_setting_present,
                      <<"laser1.ctl.wavelength_set", "laser1.ctl.wavelength_act">>,
                      conn, fail, 1)
        t == PairRead(temp_setting_present,
                      <<"laser1.dl.tc.temp_set", "laser1.dl.tc.temp_act">>,
                      conn, fail, 1 + nwl)
        r == ScanRead(conn, fail, 1 + nwl + ntc)
    IN  IF w.raised THEN [raised |-> TRUE, scanned |-> FALSE, io |-> w.io]
        ELSE IF t.raised THEN [raised |-> TRUE, scanned |-> FALSE, io |-> w.io \o t.io]
        ELSE [raised |-> r.raised, scanned |-> ~r.raised, io |-> w.io \o t.io \o r.io,
              params |-> r.params, scan |-> ParamsScan(r),
              wavelength |-> w.vals, temperature |-> t.vals]

get_all_parameters(fail) ==
    LET a == AllRead(fail)
    IN  /\ UNCHANGED <<dev, lifecycle, files, _lims, _scan_range, remote, externals>>
        /\ IF a.raised
           THEN /\ Done("get_all_parameters", "-", "TransportError", a.io)
                /\ UNCHANGED <<_scan_parameters, snapshot>>
           ELSE /\ _scan_parameters' = a.params
                /\ snapshot' =
                       [taken |-> TRUE,
                        scan_alias |-> a.scan = a.params, remote_alias |-> TRUE,
                        scan |-> IF a.scan = a.params THEN <<>> ELSE a.scan,
                        remote |-> <<>>,
                        wavelength |-> a.wavelength, temperature |-> a.temperature]
                /\ Done("get_all_parameters", "-", "ok",
                        a.io \o <<<<"return", "params", "dict">>>>)

Json == <<".", "j", "s", "o", "n">>

\* fname.endswith(suffix)
EndsWith(fname, suffix) ==
    /\ Len(fname) >= Len(suffix)
    /\ SubSeq(fname, Len(fname) - Len(suffix) + 1, Len(fname)) = suffix

\* the path save_parameters and read_parameters use for fname
JsonPath(fname) == IF EndsWith(fname, Json) THEN fname ELSE fname \o Json

\* the test before the file is opened for writing, had it been left out
PathTakenNever(path) == FALSE

\* os.path.exists(fname)
PathTaken(path) == path \in DOMAIN files

\* what json.dump writes for params
Dumped(a) ==
    [scan |-> a.scan, remote |-> _remote_parameters,
     wavelength |-> a.wavelength, temperature |-> a.temperature]

save_parameters(fname, fail) ==
    LET a == AllRead(fail)
        path == JsonPath(fname)
    IN  /\ UNCHANGED <<dev, lifecycle, _lims, _scan_range, remote, externals>>
        /\ IF a.raised
           THEN /\ Done("save_parameters", fname, "TransportError", a.io)
                /\ UNCHANGED <<_scan_parameters, snapshot, files>>
           ELSE /\ _scan_parameters' = a.params
                /\ snapshot' = ScanRebound(snapshot)
                /\ IF PathTaken(path)
                   THEN /\ Done("save_parameters", fname, "RuntimeError",
                                a.io \o <<<<"exists", path, TRUE>>>>)
                        /\ UNCHANGED files
                   ELSE /\ files' = [f \in DOMAIN files \cup {path} |->
                                        IF f = path THEN Dumped(a) ELSE files[f]]
                        /\ Done("save_parameters", fname, "ok",
                                a.io \o <<<<"exists", path, FALSE>>,
                                          <<"write", path, "json">>>>)

-----------------------------------------------------------------------------
(* Opening and closing the session, and the session as a context manager.  *)
(* The accesses of open() are numbered from 1, dlc.open() being the first. *)

\* an attribute that has not been assigned yet
Absent == <<>>

\* the number of get() calls of get_limits_from_dlc
LimitsAccesses ==
    3 + (IF wl_setting_present THEN 2 ELSE 0) + (IF temp_setting_present THEN 2 ELSE 0)

\* the channel _update_scan_range_attribute() takes when open() calls it
\* without one, had it taken the piezo instead of the channel just read
OpenRangeChannelPiezo(params) == PC

\* channel = self._scan_parameters["output channel"]
OpenRangeChannel(params) == params["output channel"]

\* what open() leaves when dlc.open() has returned: the attributes, the
\* events, and whether it ran to its end (done) or a get() raised
OpenRead(fail) ==
    LET l == LimitsReadOn("open", fail, 2)
        s == ScanRead("open", fail, 2 + LimitsAccesses)
        r == RemoteRead("open", fail, 2 + LimitsAccesses + Len(ScanPaths))
        channel == OpenRangeChannel(s.params)
        range == ScanRangeOf(channel, l.lims)
        done == ~l.raised /\ ~s.raised /\ ~r.raised
        read == ~l.raised /\ ~s.raised
    IN  [done |-> done,
         lims |-> l.lims,
         params |-> IF l.raised THEN _scan_parameters ELSE s.params,
         remote |-> IF read THEN <<r.params, r.str, RemoteNode(r.str)>> ELSE remote,
         snapshot |-> IF read THEN RemoteRebound(ScanRebound(snapshot)) ELSE snapshot,
         range |-> IF done THEN range ELSE _scan_range,
         io |-> <<<<"open", "connection", "ok">>>> \o l.io
                \o (IF l.raised THEN <<>> ELSE s.io)
                \o (IF read THEN r.io ELSE <<>>)
                \o (IF done THEN <<Mirror("_scan_range", range)>>
                                 \o ScanRangeWarning(channel)
                    ELSE <<>>)]

\* the body of open(), called as `op`
OpenBody(op, fail) ==
    LET o == OpenRead(fail)
    IN  IF fail = 1
        THEN /\ Done(op, "-", "TransportError", <<<<"open-failed", "connection", "error">>>>)
             /\ UNCHANGED <<conn, _is_open, cache, snapshot, files>>
        ELSE /\ conn' = "open"
             /\ _is_open' = TRUE
             /\ _lims' = o.lims
             /\ _scan_parameters' = o.params
             /\ _remote_parameters' = o.remote[1]
             /\ _remote_str' = o.remote[2]
             /\ _remote_unit' = o.remote[3]
             /\ snapshot' = o.snapshot
             /\ UNCHANGED files
             /\ _scan_range' = o.range
             /\ Done(op, "-", IF o.done THEN "ok" ELSE "TransportError", o.io)

\* the body of close(), called as `op`: dlc.close() when _is_open, which
\* nothing sets back to False
CloseBody(op) ==
    /\ conn' = IF _is_open THEN "closed" ELSE conn
    /\ Done(op, "-", "ok",
            IF _is_open THEN <<<<"close", "connection", conn>>>> ELSE <<>>)
    /\ UNCHANGED <<_is_open, cache, snapshot, files>>

\* dlc.open() on a session that is not used in a with statement
open(fail) ==
    /\ scope = "none"
    /\ OpenBody("open", fail)
    /\ UNCHANGED <<dev, wl_setting_present, temp_setting_present, externals, scope>>

\* dlc.close() on such a session
close ==
    /\ scope = "none"
    /\ CloseBody("close")
    /\ UNCHANGED <<dev, wl_setting_present, temp_setting_present, externals, scope>>

\* `with DLCcontrol(ip) as dlc:` up to the body: __init__ calls open(), and an
\* exception of open() leaves the statement before __enter__ is reached
__init__(fail) ==
    /\ scope = "new"
    /\ OpenBody("__init__", fail)
    /\ scope' = IF last'.result = "ok" THEN "body" ELSE "left"
    /\ UNCHANGED <<dev, wl_setting_present, temp_setting_present, externals>>

\* a call in the body of the with statement; the body ends at the first call
\* that raises
InBody(call) ==
    /\ scope = "body"
    /\ last.result = "ok"
    /\ call

\* __exit__, which the with statement calls when the body has completed or
\* raised
__exit__ ==
    /\ scope = "body"
    /\ CloseBody("__exit__")
    /\ scope' = "left"
    /\ UNCHANGED <<dev, wl_setting_present, temp_setting_present, externals>>

-----------------------------------------------------------------------------
(* step_through_scan_range.  The function is one call, so its statements   *)
(* are run here on a record m of what they change: the device, the         *)
(* session's _scan_parameters, its connection, the number n of points      *)
(* passed, the events, the exception that is propagating (exc, "" for      *)
(* none) and the value the last get() returned.  A point is a transport    *)
(* access, a sleep, or a statement that takes time.  The environment e     *)
(* makes the access at point e.fail raise, and delivers a                  *)
(* KeyboardInterrupt at point e.intr; a set() that is interrupted has      *)
(* reached the device or not (e.applied).  A statement is skipped while    *)
(* an exception propagates.                                                *)

Interrupted(what) == <<"interrupt", what, "KeyboardInterrupt">>

Raised(m, exc, event) ==
    [m EXCEPT !.n = @ + 1, !.exc = exc, !.io = Append(@, event)]

\* <path>.get()
StepGet(m, e, path) ==
    IF m.exc # "" THEN m
    ELSE IF e.intr = m.n + 1 THEN Raised(m, "KeyboardInterrupt", Interrupted(path))
    ELSE IF m.c # "open" \/ e.fail = m.n + 1
    THEN Raised(m, "TransportError", <<"get-failed", path, "error">>)
    ELSE [m EXCEPT !.n = @ + 1, !.val = m.dev[path],
                   !.io = Append(@, <<"get", path, m.dev[path]>>)]

\* <path>.set(val)
StepSet(m, e, path, val) ==
    IF m.exc # "" THEN m
    ELSE IF e.intr = m.n + 1
    THEN [Raised(m, "KeyboardInterrupt", Interrupted(path))
             EXCEPT !.dev = IF e.applied THEN [@ EXCEPT ![path] = val] ELSE @]
    ELSE IF m.c # "open" \/ e.fail = m.n + 1
    THEN Raised(m, "TransportError", SetFailed(path, val))
    ELSE [m EXCEPT !.n = @ + 1, !.dev = [@ EXCEPT ![path] = val],
                   !.io = Append(@, SetEvent(path, val))]

\* a statement that makes no access but takes time: np.linspace, time.sleep,
\* print
StepPoint(m, e, event) ==
    IF m.exc # "" THEN m
    ELSE IF e.intr = m.n + 1 THEN Raised(m, "KeyboardInterrupt", Interrupted(event[2]))
    ELSE [m EXCEPT !.n = @ + 1, !.io = Append(@, event)]

\* self._scan_parameters[key] = val
StepMirror(m, key, val) ==
    IF m.exc # "" THEN m
    ELSE [m EXCEPT !.params = DictSet(@, key, val), !.io = Append(@, Mirror(key, val))]

\* dlc.scan_amplitude = val
StepAmplitude(m, e, val, range) ==
    LET g == StepGet(m, e, "laser1.scan.offset")
    IN  IF g.exc # "" THEN g
        ELSE IF EnvelopeOutside(g.val, val, range)
        THEN [g EXCEPT !.exc = "OutOfRangeError"]
        ELSE StepMirror(StepSet(g, e, "laser1.scan.amplitude", val), "amplitude", val)

\* dlc.scan_offset = val
StepOffset(m, e, val, range) ==
    LET g == StepGet(m, e, "laser1.scan.amplitude")
    IN  IF g.exc # "" THEN g
        ELSE IF EnvelopeOutside(val, g.val, range)
        THEN [g EXCEPT !.exc = "OutOfRangeError"]
        ELSE StepMirror(StepSet(g, e, "laser1.scan.offset", val), "offset", val)

\* np.linspace(0, stop, num), for the stop and num that divide exactly
Linspace(stop, num) ==
    [i \in 1..num |-> IF num = 1 THEN 0 ELSE (stop * (i - 1)) \div (num - 1)]

\* an exception caught by an except clause that prints and breaks
Caught(m, text) == [m EXCEPT !.exc = "", !.io = Append(@, Printed(text))]

\* the for loop from its i-th round on: OutOfRangeError of the offset and a
\* KeyboardInterrupt anywhere in the round end the loop, any other exception
\* leaves it
RECURSIVE StepLoop(_, _, _, _, _, _)
StepLoop(m, e, range, initial_end, step_range, i) ==
    IF i > Len(step_range) THEN m
    ELSE LET p == StepPoint(m, e, Printed("change to"))
             o == StepOffset(p, e, initial_end + step_range[i], range)
             z == StepPoint(o, e, <<"sleep", "time.sleep", 1>>)
         IN  IF o.exc = "OutOfRangeError" THEN Caught(o, "err")
             ELSE IF z.exc = "KeyboardInterrupt" THEN Caught(z, "Stopping scan")
             ELSE IF z.exc # "" THEN z
             ELSE StepLoop(z, e, range, initial_end, step_range, i + 1)

\* dlc.scan_offset = initial_offset; dlc.scan_amplitude = initial_amplitude
StepRestore(m, e, range, initial_offset, initial_amplitude) ==
    StepAmplitude(StepOffset(m, e, initial_offset, range), e, initial_amplitude, range)

\* the finally clause, entered with the exception m.exc propagating or
\* none: an exception raised in the clause takes the place of that one and
\* leaves the clause at once
StepFinally(m, e, range, initial_offset, initial_amplitude, close_flag) ==
    LET p == StepPoint([m EXCEPT !.exc = ""], e, Printed("Restore initial state"))
        r == StepRestore(p, e, range, initial_offset, initial_amplitude)
        c == IF r.exc = "" /\ close_flag
             THEN [r EXCEPT !.c = "closed",
                            !.io = Append(@, <<"close", "connection", r.c>>)]
             ELSE r
    IN  IF c.exc # "" THEN c ELSE [c EXCEPT !.exc = m.exc]

\* the function from `# Read initial values` on, dlc being a session whose
\* attributes are in m and whose scan range is `range`
StepBody(m, e, range, steps, close_flag) ==
    LET r1 == StepGet(m, e, "laser1.scan.end")
        r2 == StepGet(r1, e, "laser1.scan.offset")
        r3 == StepGet(r2, e, "laser1.scan.amplitude")
        initial_end == r1.val
        initial_offset == r2.val
        initial_amplitude == r3.val
        l == StepPoint(r3, e, <<"linspace", "np.linspace", steps>>)
        a == StepAmplitude(l, e, 0, range)
        f == IF a.exc # "" THEN a
             ELSE StepLoop(a, e, range, initial_end,
                           Linspace(-initial_amplitude, steps), 1)
    IN  IF l.exc # "" THEN l
        ELSE StepFinally(f, e, range, initial_offset, initial_amplitude, close_flag)

StepResult(m) == IF m.exc = "" THEN "ok" ELSE m.exc

\* step_through_scan_range(ip, steps, dlc) with dlc a session of the caller
step_through_scan_range(steps, e) ==
    LET m == StepBody([dev |-> dev, params |-> _scan_parameters, c |-> conn, n |-> 0,
                       io |-> <<>>, exc |-> "", val |-> 0],
                      e, _scan_range, steps, FALSE)
    IN  /\ scope = "none"
        /\ _scan_parameters # None
        /\ dev' = m.dev
        /\ _scan_parameters' = m.params
        /\ conn' = m.c
        /\ Done("step_through_scan_range", [steps |-> steps, dlc |-> "given"],
                StepResult(m), m.io)
        /\ UNCHANGED <<_is_open, wl_setting_present, temp_setting_present, scope,
                       snapshot, files, _lims, _scan_range, remote, externals>>

\* step_through_scan_range(ip, steps) with dlc=None: DLCcontrol(ip) is
\* constructed first (its open() failing at access `fail` or not), and the
\* session is gone when the function is left
step_through_scan_range_own(steps, fail, e) ==
    LET o == OpenRead(fail)
        m == StepBody([dev |-> dev, params |-> o.params, c |-> "open", n |-> 0,
                       io |-> o.io, exc |-> "", val |-> 0],
                      e, o.range, steps, TRUE)
        arg == [steps |-> steps, dlc |-> "None"]
    IN  /\ scope = "new"
        /\ scope' = "left"
        /\ UNCHANGED <<wl_setting_present, temp_setting_present, files, externals>>
        /\ IF fail = 1
           THEN /\ Done("step_through_scan_range", arg, "TransportError",
                        <<<<"open-failed", "connection", "error">>>>)
                /\ UNCHANGED <<dev, conn, _is_open, cache, snapshot>>
           ELSE /\ _is_open' = TRUE
                /\ _lims' = o.lims
                /\ _remote_parameters' = o.remote[1]
                /\ _remote_str' = o.remote[2]
                /\ _remote_unit' = o.remote[3]
                /\ snapshot' = o.snapshot
                /\ _scan_range' = o.range
                /\ IF ~o.done
                   THEN /\ conn' = "open"
                        /\ _scan_parameters' = o.params
                        /\ UNCHANGED dev
                        /\ Done("step_through_scan_range", arg, "TransportError", o.io)
                   ELSE /\ conn' = m.c
                        /\ _scan_parameters' = m.params
                        /\ dev' = m.dev
                        /\ Done("step_through_scan_range", arg, StepResult(m), m.io)

-----------------------------------------------------------------------------
(* The device at the start, the session after DLCcontrol(ip) has opened    *)
(* it, and the changes made to the device from outside the session (its    *)
(* front panel, another client).                                           *)

\* the device's parameters when the session is constructed
DeviceAtStart(channel) ==
    ("laser1.scan.enabled" :> FALSE)
    @@ ("laser1.scan.output_channel" :> channel)
    @@ ("laser1.scan.frequency" :> 1000)
    @@ ("laser1.scan.amplitude" :> 4)
    @@ ("laser1.scan.offset" :> IF channel = CC THEN 4 ELSE 0)
    @@ ("laser1.scan.start" :> IF channel = CC THEN 2 ELSE -2)
    @@ ("laser1.scan.end" :> IF channel = CC THEN 6 ELSE 2)
    @@ ("laser1.dl.pc.voltage_min" :> -10)
    @@ ("laser1.dl.pc.voltage_max" :> 10)
    @@ ("laser1.dl.cc.current_clip" :> 8)
    @@ ("laser1.ctl.wavelength_min" :> 1500)
    @@ ("laser1.ctl.wavelength_max" :> 1600)
    @@ ("laser1.ctl.wavelength_set" :> 1540)
    @@ ("laser1.ctl.wavelength_act" :> 1541)
    @@ ("laser1.dl.tc.temp_set_min" :> 15)
    @@ ("laser1.dl.tc.temp_set_max" :> 30)
    @@ ("laser1.dl.tc.temp_set" :> 25)
    @@ ("laser1.dl.tc.temp_act" :> 24)
    @@ ("emission" :> FALSE)
    @@ ("emission_button_enabled" :> TRUE)
    @@ ("laser1.dl.cc.enabled" :> FALSE)
    @@ ("laser1.dl.cc.external_input.enabled" :> FALSE)
    @@ ("laser1.dl.cc.external_input.factor" :> 1)
    @@ ("laser1.dl.cc.external_input.signal" :> NotSelected)
    @@ ("laser1.dl.pc.external_input.enabled" :> FALSE)
    @@ ("laser1.dl.pc.external_input.factor" :> 1)
    @@ ("laser1.dl.pc.external_input.signal" :> NotSelected)

\* the limits get_limits_from_dlc reads from device d
LimitsOf(d) ==
    LET l1 == BaseLimits(d)
        l2 == IF wl_setting_present THEN WithWavelengthLimits(l1, d) ELSE l1
    IN  IF temp_setting_present THEN WithTemperatureLimits(l2, d) ELSE l2

\* the attributes after __init__ with open_on_init and an open() that succeeded:
\* the limits, the scan parameters and both remotes read from the device, the
\* pc remote selected last, the scan range that of the channel read
Opened ==
    /\ conn = "open"
    /\ _is_open = TRUE
    /\ _lims = LimitsOf(dev)
    /\ _scan_parameters = ScanDict(dev)
    /\ _remote_parameters = ("cc" :> RemoteDict(dev, "cc")) @@ ("pc" :> RemoteDict(dev, "pc"))
    /\ _remote_str = "pc"
    /\ _remote_unit = RemoteNode("pc")
    /\ _scan_range = ScanRangeOf(_scan_parameters["output channel"], _lims)

\* DLCcontrol(ip, wl_setting_present=wl, temp_setting_present=temp), the
\* device's scan being on one of `channels`
Constructed(channels, wl, temp) ==
    /\ dev \in {DeviceAtStart(c) : c \in channels}
    /\ wl_setting_present = wl
    /\ temp_setting_present = temp
    /\ Opened
    /\ externals = 0
    /\ scope = "none"
    /\ snapshot = NoSnapshot
    /\ files = <<>>
    /\ last = [op |-> "__init__", arg |-> "-", result |-> "ok", io |-> <<>>]

\* DLCcontrol(ip, open_on_init=False), or the class before the with
\* statement constructs the session: the class attributes, and no _scan_range,
\* _remote_str or _remote_unit yet
Unopened(scopes) ==
    /\ dev \in {DeviceAtStart(c) : c \in {PC, CC}}
    /\ conn = "closed"
    /\ _is_open = FALSE
    /\ wl_setting_present = FALSE
    /\ temp_setting_present = FALSE
    /\ _lims = None
    /\ _scan_parameters = None
    /\ _remote_parameters = None
    /\ _scan_range = Absent
    /\ _remote_str = "absent"
    /\ _remote_unit = "absent"
    /\ externals = 0
    /\ scope \in scopes
    /\ snapshot = NoSnapshot
    /\ files = <<>>
    /\ last = [op |-> "-", arg |-> "-", result |-> "ok", io |-> <<>>]

InitUnopened == Unopened({"none", "new"})

\* DLCcontrol(ip): neither setpoint is present by default
Init == Constructed({PC, CC}, FALSE, FALSE)

\* the same, the scan on the piezo
InitPiezo == Constructed({PC}, FALSE, FALSE)

\* DLCcontrol(ip, wl_setting_present=True, temp_setting_present=True)
InitCapable == Constructed({PC}, TRUE, TRUE)

\* DLCcontrol(ip, wl_setting_present=wl, temp_setting_present=temp) for every
\* wl and temp
InitAnyCapability == \E wl, temp \in BOOLEAN : Constructed({PC}, wl, temp)

MaxExternal == 1

\* a parameter of the device is changed from outside the session
External(path, val) ==
    /\ externals < MaxExternal
    /\ dev[path] # val
    /\ dev' = [dev EXCEPT ![path] = val]
    /\ externals' = externals + 1
    /\ Done("external", path, "ok", <<>>)
    /\ UNCHANGED <<session, cache>>

-----------------------------------------------------------------------------
(* The calls a client makes, and the accesses the environment makes fail.  *)

\* the largest access number, within one call, that is made to fail
MaxAccess == 17
Fails == 0..MaxAccess

CaseVariants(name) == {name, StrUpper(name), StrLower(name), StrTitle(name)}

OutputChannelMembers == {OutputChannelValue(c) : c \in OutputChannelCodes}
OutputChannelSpellings ==
    {Str(s) : s \in UNION {CaseVariants(n) : n \in DOMAIN OutputChannel}}
NoOutputChannel ==
    {Str(<<"x", "x">>), Str(<<>>), IntValue(PC), InputChannelValue(Fine1)}

\* the channels a scan session asks for
ChannelArgs ==
    OutputChannelMembers
    \cup {Str(<<"p", "c">>), Str(<<"C", "C">>), Str(<<"O", "u", "t", "A">>)}
FrequencyArgs == {1, 2050, 40001}
AmplitudeArgs == {0, 4, 22}
OffsetArgs == {0, 4, 9}
StartArgs == {-11, 2}
EndArgs == {-11, 2}

\* a session that sets up the scan, over a transport that does not fail
Next ==
    \/ \E val \in ChannelArgs : scan_output_channel_setter(val, 0)
    \/ \E val \in FrequencyArgs : scan_frequency_setter(val, 0)
    \/ \E val \in AmplitudeArgs : scan_amplitude_setter(val, 0)
    \/ \E val \in OffsetArgs : scan_offset_setter(val, 0)
    \/ \E val \in StartArgs : scan_start_setter(val, 0)
    \/ \E val \in EndArgs : scan_end_setter(val, 0)
    \/ get_scan_parameters(0)
    \/ get_limits_from_dlc(0)

Spec == Init /\ [][Next]_vars

\* the same session with the device also changed from outside
NextExt ==
    \/ \E val \in {OutputChannelValue(CC), OutputChannelValue(OutA)} :
           scan_output_channel_setter(val, 0)
    \/ \E val \in AmplitudeArgs : scan_amplitude_setter(val, 0)
    \/ \E val \in OffsetArgs : scan_offset_setter(val, 0)
    \/ get_scan_parameters(0)
    \/ get_limits_from_dlc(0)
    \/ \E val \in {PC, CC, OutA} : External("laser1.scan.output_channel", val)
    \/ \E val \in AmplitudeArgs : External("laser1.scan.amplitude", val)
    \/ \E val \in OffsetArgs : External("laser1.scan.offset", val)
    \/ \E val \in {6} : External("laser1.dl.cc.current_clip", val)

SpecExt == InitPiezo /\ [][NextExt]_vars

\* every setter that mirrors into a cache, over a transport that may fail
NextMirror ==
    \/ \E val \in BOOLEAN, fail \in 0..1 : scan_enabled_setter(val, fail)
    \/ \E val \in {OutputChannelValue(CC)}, fail \in 0..1 :
           scan_output_channel_setter(val, fail)
    \/ \E val \in {2050}, fail \in 0..1 : scan_frequency_setter(val, fail)
    \/ \E val \in {0}, fail \in 0..2 : scan_amplitude_setter(val, fail)
    \/ \E val \in {4}, fail \in 0..2 : scan_offset_setter(val, fail)
    \/ \E val \in {2}, fail \in 0..1 : scan_start_setter(val, fail)
    \/ \E val \in {6}, fail \in 0..1 : scan_end_setter(val, fail)
    \/ \E val \in BOOLEAN, fail \in 0..1 : remote_enabled_setter(val, fail)
    \/ \E val \in {10}, fail \in 0..1 : remote_factor_setter(val, fail)
    \/ \E val \in {Str(<<"f", "i", "n", "e", "1">>)}, fail \in 0..1 :
           remote_signal_setter(val, fail)

SpecMirror == InitPiezo /\ [][NextMirror]_vars

\* the range-checked setters, the limits refreshed over a transport that may
\* fail
WavelengthArgs == {1550, 1700}
TemperatureArgs == {20, 40}

NextRange ==
    \/ \E val \in FrequencyArgs : scan_frequency_setter(val, 0)
    \/ \E val \in AmplitudeArgs : scan_amplitude_setter(val, 0)
    \/ \E val \in OffsetArgs : scan_offset_setter(val, 0)
    \/ \E val \in StartArgs : scan_start_setter(val, 0)
    \/ \E val \in EndArgs : scan_end_setter(val, 0)
    \/ \E val \in WavelengthArgs : wavelength_setpoint_setter(Num(val), 0)
    \/ \E val \in TemperatureArgs : temp_setpoint_setter(Num(val), 0)
    \/ \E fail \in Fails : get_limits_from_dlc(fail)

SpecRange == InitCapable /\ [][NextRange]_vars

\* the setters that resolve a name, over a transport that does not fail
InputChannelMembers == {InputChannelValue(c) : c \in InputChannelCodes}
InputChannelSpellings ==
    {Str(s) : s \in UNION {CaseVariants(n) : n \in DOMAIN InputChannel}}
NoInputChannel ==
    {Str(<<"F", "i", "n", "e", "5">>), Str(<<>>), IntValue(Fine1),
     OutputChannelValue(PC)}
SelectArgs ==
    {Str(s) : s \in CaseVariants(<<"c", "c">>) \cup CaseVariants(<<"p", "c">>)}
NoSelect == {Str(<<"t", "c">>), Str(<<>>), IntValue(PC)}
SelectMembers == {OutputChannelValue(CC), OutputChannelValue(PC)}

NextResolve ==
    \/ \E val \in OutputChannelMembers \cup OutputChannelSpellings \cup NoOutputChannel :
           scan_output_channel_setter(val, 0)
    \/ \E val \in SelectArgs \cup SelectMembers \cup NoSelect : remote_select_setter(val)
    \/ \E val \in InputChannelMembers \cup InputChannelSpellings \cup NoInputChannel :
           remote_signal_setter(val, 0)

SpecResolve == InitPiezo /\ [][NextResolve]_vars

\* the remotes: the cursor moved, the three fields written, the records
\* re-read, over a transport that may fail
NextRemote ==
    \/ \E val \in SelectArgs \cup SelectMembers \cup NoSelect : remote_select_setter(val)
    \/ \E val \in BOOLEAN, fail \in 0..1 : remote_enabled_setter(val, fail)
    \/ \E val \in {1, 10}, fail \in 0..1 : remote_factor_setter(val, fail)
    \/ \E val \in {InputChannelValue(Fine1), Str(<<"f", "a", "s", "t", "3">>)},
          fail \in 0..1 : remote_signal_setter(val, fail)
    \/ \E fail \in Fails : get_remote_parameters(fail)

SpecRemote == InitPiezo /\ [][NextRemote]_vars

\* a session opened and closed by hand, and a session in a with statement,
\* over a transport that may fail and a device that may be changed from outside
NextLife ==
    \/ \E fail \in Fails : open(fail)
    \/ close
    \/ \E fail \in Fails : __init__(fail)
    \/ InBody(\E fail \in 0..1 : get_scan_parameters(fail))
    \/ InBody(\E val \in BOOLEAN, fail \in 0..1 : scan_enabled_setter(val, fail))
    \/ __exit__
    \/ \E val \in {PC, CC, OutA} : External("laser1.scan.output_channel", val)
    \/ \E val \in {6} : External("laser1.dl.cc.current_clip", val)

SpecLife == InitUnopened /\ [][NextLife]_vars

\* snapshots taken while the scan and the remotes are set and the device is
\* changed from outside
NextSnapshot ==
    \/ \E fail \in {0, 1, 7} : get_all_parameters(fail)
    \/ get_scan_parameters(0)
    \/ get_remote_parameters(0)
    \/ \E val \in {2} : scan_start_setter(val, 0)
    \/ \E val \in {OutputChannelValue(CC)} : scan_output_channel_setter(val, 0)
    \/ \E val \in {TRUE} : remote_enabled_setter(val, 0)
    \/ \E val \in {TRUE} : External("laser1.scan.enabled", val)
    \/ \E val \in {OutA} : External("laser1.scan.output_channel", val)
    \/ \E val \in {2050} : External("laser1.scan.frequency", val)
    \/ \E val \in {2} : External("laser1.scan.amplitude", val)
    \/ \E val \in {1} : External("laser1.scan.offset", val)
    \/ \E val \in {0} : External("laser1.scan.start", val)
    \/ \E val \in {1} : External("laser1.scan.end", val)

SpecSnapshot == InitPiezo /\ [][NextSnapshot]_vars

\* the parameters saved to files while the scan is set and the device is
\* changed from outside
FileArgs == {<<"x">>, <<"x">> \o Json, <<"y">>}

NextSave ==
    \/ \E fname \in FileArgs, fail \in {0, 7} : save_parameters(fname, fail)
    \/ \E val \in {2} : scan_start_setter(val, 0)
    \/ \E val \in {1} : External("laser1.scan.offset", val)

SpecSave == InitPiezo /\ [][NextSave]_vars

\* the wavelength and the temperature set and read, whether or not the
\* session has the setting, over a transport that may fail
NextCapability ==
    \/ \E val \in {Num(v) : v \in WavelengthArgs} \cup {None}, fail \in 0..1 :
           wavelength_setpoint_setter(val, fail)
    \/ \E val \in {Num(v) : v \in TemperatureArgs} \cup {None}, fail \in 0..1 :
           temp_setpoint_setter(val, fail)
    \/ \E fail \in 0..1 : wavelength_actual_getter(fail)
    \/ \E fail \in 0..1 : wavelength_setpoint_getter(fail)
    \/ \E fail \in 0..1 : temp_actual_getter(fail)
    \/ \E fail \in 0..1 : temp_setpoint_getter(fail)
    \/ \E fail \in Fails : get_limits_from_dlc(fail)

SpecCapability == InitAnyCapability /\ [][NextCapability]_vars

\* the scan range stepped through, by a session of the caller or by one the
\* function constructs, over a transport that may fail, interrupted or not,
\* the device changed from outside before
MaxPoint == 19
StepsArgs == {1, 2}
Environments ==
    {[fail |-> f, intr |-> 0, applied |-> FALSE] : f \in 0..MaxPoint}
    \cup {[fail |-> 0, intr |-> i, applied |-> a] : i \in 1..MaxPoint, a \in BOOLEAN}

InitStep == InitPiezo \/ Unopened({"new"})

NextStep ==
    \/ \E steps \in StepsArgs, e \in Environments : step_through_scan_range(steps, e)
    \/ \E steps \in StepsArgs, fail \in {0, 1, 3}, e \in Environments :
           step_through_scan_range_own(steps, fail, e)
    \/ close
    \/ \E val \in {-8} : External("laser1.scan.end", val)

SpecStep == InitStep /\ [][NextStep]_vars

\* the frequency, start and end set to values at, within and beyond their
\* bounds while the channel, amplitude and offset change
NextBounds ==
    \/ \E val \in {FMIN - 1, FMIN, FMAX, FMAX + 1} : scan_frequency_setter(val, 0)
    \/ \E val \in {-11, -10, 8, 10, 11} : scan_start_setter(val, 0)
    \/ \E val \in {-10, 0, 9, 10} : scan_end_setter(val, 0)
    \/ \E val \in {0} : scan_amplitude_setter(val, 0)
    \/ \E val \in {8} : scan_offset_setter(val, 0)
    \/ \E val \in {OutputChannelValue(CC)} : scan_output_channel_setter(val, 0)

SpecBounds == InitPiezo /\ [][NextBounds]_vars

\* the current switched and the flags read while the button on the DLC is
\* pressed and released, over a transport that may fail, on a session that
\* may have been closed
NextEmission ==
    \/ \E val \in BOOLEAN, fail \in 0..2 : current_enabled_setter(val, fail)
    \/ \E fail \in 0..1 : emission_getter(fail)
    \/ \E fail \in 0..1 : emission_button_getter(fail)
    \/ \E fail \in 0..1 : current_enabled_getter(fail)
    \/ \E val \in BOOLEAN : External("emission_button_enabled", val)
    \/ \E val \in BOOLEAN : External("laser1.dl.cc.enabled", val)
    \/ \E val \in BOOLEAN : External("emission", val)
    \/ close

SpecEmission == InitPiezo /\ [][NextEmission]_vars

\* the scan parameters read again while the device is changed from outside
\* and through the session, over a transport that may fail
NextScanRead ==
    \/ \E fail \in 0..Len(ScanPaths) : get_scan_parameters(fail)
    \/ \E val \in {TRUE} : scan_enabled_setter(val, 0)
    \/ \E val \in {2} : scan_end_setter(val, 0)
    \/ \E val \in {CC} : External("laser1.scan.output_channel", val)
    \/ \E val \in {2050} : External("laser1.scan.frequency", val)
    \/ \E val \in {2} : External("laser1.scan.amplitude", val)
    \/ \E val \in {1} : External("laser1.scan.offset", val)
    \/ \E val \in {6} : External("laser1.scan.end", val)

SpecScanRead == InitPiezo /\ [][NextScanRead]_vars

\* the remotes selected, written and read again, the session opened and all
\* its parameters taken, over a transport that may fail
NextCursor ==
    \/ \E fail \in {0, 2} : open(fail)
    \/ \E val \in {Str(<<"c", "c">>), Str(<<"p", "c">>)} : remote_select_setter(val)
    \/ \E val \in {TRUE} : remote_enabled_setter(val, 0)
    \/ \E val \in {10} : remote_factor_setter(val, 0)
    \/ \E fail \in {0, 2, 5} : get_remote_parameters(fail)
    \/ \E fail \in 0..1 : get_all_parameters(fail)

InitCursor == InitPiezo \/ Unopened({"none"})

SpecCursor == InitCursor /\ [][NextCursor]_vars

-----------------------------------------------------------------------------
(* What the claims speak of.                                               *)

Channel(d) == d["laser1.scan.output_channel"]
Offset(d) == d["laser1.scan.offset"]
Amplitude(d) == d["laser1.scan.amplitude"]

Unbounded == <<NegInf, PosInf>>

\* the range a channel is limited to: the voltage range for PC, the current
\* range for CC, none for the analogue outputs
ActiveRange(channel, lims) ==
    CASE channel = PC -> <<lims.vmin, lims.vmax>>
      [] channel = CC -> <<lims.cmin, lims.cmax>>
      [] OTHER -> Unbounded

\* [offset - amplitude/2, offset + amplitude/2] lies within range
EnvelopeWithin(offset, amplitude, range) ==
    /\ Le(Twice(range[1]), Num(2 * offset - amplitude))
    /\ Le(Twice(range[1]), Num(2 * offset + amplitude))
    /\ Le(Num(2 * offset - amplitude), Twice(range[2]))
    /\ Le(Num(2 * offset + amplitude), Twice(range[2]))

Kinds(io) == {io[i][1] : i \in 1..Len(io)}
NoSetIssued(io) == Kinds(io) \cap {"set", "set-failed"} = {}

\* the value of the set() a call made
Written(io) == io[CHOOSE i \in 1..Len(io) : io[i][1] = "set"][3]

\* the key of the scan record each scan setter is about
ScanKeyOf ==
    ("scan_enabled" :> "enabled") @@ ("scan_output_channel" :> "output channel")
    @@ ("scan_frequency" :> "frequency") @@ ("scan_amplitude" :> "amplitude")
    @@ ("scan_offset" :> "offset") @@ ("scan_start" :> "start")
    @@ ("scan_end" :> "end")

\* C1: without external changes, the device's scan envelope lies within the
\* active range of the device's scan channel in every state of a session
\* that sets the channel, amplitude, offset, start, end and frequency and
\* refreshes its caches.
C1_EnvelopeWithinActiveRange ==
    EnvelopeWithin(Offset(dev), Amplitude(dev), ActiveRange(Channel(dev), _lims))

RangeChecked ==
    {"scan_frequency", "scan_amplitude", "scan_offset", "scan_start", "scan_end",
     "wavelength_setpoint", "temp_setpoint"}

\* a call of a range-checked setter that ends in OutOfRangeError
OutOfRangeStep == last'.op \in RangeChecked /\ last'.result = "OutOfRangeError"

\* the device, the scan record, the scan range and the remotes are as before
OthersUntouched ==
    /\ NoSetIssued(last'.io)
    /\ dev' = dev
    /\ _scan_parameters' = _scan_parameters
    /\ _scan_range' = _scan_range
    /\ UNCHANGED remote

\* the setpoint setter re-read the limits because its own bound was not cached
LimitsRefetched ==
    \/ /\ last'.op = "wavelength_setpoint"
       /\ _lims.wlmin = None
       /\ _lims' = LimitsOf(dev)
    \/ /\ last'.op = "temp_setpoint"
       /\ _lims.tmin = None
       /\ _lims' = LimitsOf(dev)

\* with range (-10, 10) and offset 0, setAmplitude(22) fails with OutOfRange
AmplitudeExample ==
    (last'.op = "scan_amplitude" /\ last'.arg = 22 /\ Offset(dev) = 0
     /\ _scan_range = <<Num(-10), Num(10)>>)
        => last'.result = "OutOfRangeError"

MirrorOps ==
    {"scan_enabled", "scan_output_channel", "scan_frequency", "scan_amplitude",
     "scan_offset", "scan_start", "scan_end", "remote_enabled", "remote_factor",
     "remote_signal"}

\* every cache write of a call comes after a set() that returned
MirrorsFollowSet(io) ==
    \A i \in 1..Len(io) :
        io[i][1] = "mirror" => \E j \in 1..(i - 1) : io[j][1] = "set"

\* C3: in a setter that mirrors into a cache, the cache is written only
\* after its set() has returned; when the set() fails, the call fails with
\* the transport's error and the scan record, the scan range, the remotes'
\* records and the device are as before.
C3_MirrorOnlyAfterSuccessfulSet ==
    [][last'.op \in MirrorOps =>
          /\ MirrorsFollowSet(last'.io)
          /\ "set" \notin Kinds(last'.io) => UNCHANGED <<cache, dev>>
          /\ "set-failed" \in Kinds(last'.io) =>
                 /\ last'.result = "TransportError"
                 /\ UNCHANGED <<cache, dev>>]_vars

C3_Witness ==
    /\ last.op = "scan_amplitude" /\ last.arg = 0
    /\ last.result = "TransportError"
    /\ "set-failed" \in Kinds(last.io)
    /\ _scan_parameters["amplitude"] = 4

\* C4: after a successful scan setter, the field of the cached scan record
\* that the setter is about holds the value it wrote to the transport.
C4_CacheHoldsWrittenValue ==
    (last.op \in DOMAIN ScanKeyOf /\ last.result = "ok")
        => _scan_parameters[ScanKeyOf[last.op]] = Written(last.io)

\* C5: the cached scan range is the range of the cached scan channel under
\* the cached limits, in every state.
C5_RangeDerivedFromCachedChannel ==
    _scan_range = ActiveRange(_scan_parameters["output channel"], _lims)

\* a setAmplitude or setOffset that got as far as its check
Validated(op) == last'.op = op /\ last'.result \in {"ok", "OutOfRangeError"}

\* the call is refused exactly when the envelope leaves the cached scan range
RefusedIffOutside(offset, amplitude) ==
    last'.result = "OutOfRangeError" <=> ~EnvelopeWithin(offset, amplitude, _scan_range)

\* C6 as stated: setAmplitude(a) checks the envelope around the cached
\* offset, and setOffset(o) the envelope of the cached amplitude.
C6_ComposeFromCache ==
    [][/\ Validated("scan_amplitude") =>
              RefusedIffOutside(_scan_parameters["offset"], last'.arg)
       /\ Validated("scan_offset") =>
              RefusedIffOutside(last'.arg, _scan_parameters["amplitude"])]_vars

\* C6 amended: setAmplitude(a) checks the envelope around the offset it reads
\* from the device at the call, and setOffset(o) the envelope of the
\* amplitude it reads from the device; as long as the device is not changed
\* from outside the session these are the cached values, those of the latest
\* successful setOffset and setAmplitude.
C6_ComposeFromDevice ==
    [][/\ Validated("scan_amplitude") => RefusedIffOutside(Offset(dev), last'.arg)
       /\ Validated("scan_offset") => RefusedIffOutside(last'.arg, Amplitude(dev))
       /\ externals = 0 =>
              /\ Offset(dev) = _scan_parameters["offset"]
              /\ Amplitude(dev) = _scan_parameters["amplitude"]]_vars

C6_Witness ==
    /\ externals = 1
    /\ last.op = "scan_amplitude" /\ last.arg = 4
    /\ last.result = "OutOfRangeError"
    /\ Offset(dev) = 9
    /\ _scan_parameters["offset"] = 0

\* the code of the member of enum whose name is s but for the case of letters
IsSpelling(enum, s) == \E n \in DOMAIN enum : StrLower(n) = StrLower(s)
SpelledCode(enum, s) == enum[CHOOSE n \in DOMAIN enum : StrLower(n) = StrLower(s)]
CanonicalCode(enum, val) == IF val.type = "str" THEN SpelledCode(enum, val.s) ELSE val.n

\* C7: a setChannel given an OutputChannel value, or the name of one in any
\* letter case, succeeds and writes the code of that channel.
C7_ChannelNamesAnyCase ==
    (last.op = "scan_output_channel"
     /\ last.arg \in OutputChannelMembers \cup OutputChannelSpellings)
        => /\ last.result = "ok"
           /\ Written(last.io) = CanonicalCode(OutputChannel, last.arg)
           /\ Channel(dev) = CanonicalCode(OutputChannel, last.arg)

\* C8: a setSignal given an InputChannel value, or the name of one in any
\* letter case, writes that source's code and mirrors it into the selected
\* remote's cache; given anything else it fails with the invalid input
\* channel error.
C8_SignalNamesAnyCase ==
    /\ (last.op = "remote_signal"
        /\ last.arg \in InputChannelMembers \cup InputChannelSpellings)
           => /\ last.result = "ok"
              /\ dev[_remote_unit \o ".signal"] = CanonicalCode(InputChannel, last.arg)
              /\ _remote_parameters[_remote_str].signal
                     = CanonicalCode(InputChannel, last.arg)
    /\ (last.op = "remote_signal" /\ last.arg \in NoInputChannel)
           => last.result = "ValueError"

\* the call was given something that names no channel, unit or source
Unresolvable ==
    \/ last'.op = "scan_output_channel" /\ last'.arg \in NoOutputChannel
    \/ last'.op = "remote_select" /\ last'.arg \in NoSelect
    \/ last'.op = "remote_signal" /\ last'.arg \in NoInputChannel

\* C9: setChannel, select and setSignal given something that resolves to no
\* known symbol fail (a string with ValueError) without any transport
\* access, and leave the device, the scan record, the scan range, the
\* selected remote and both remotes' records as they were.
C9_UnresolvableFailsWithoutAccess ==
    [][Unresolvable =>
          /\ last'.result \in {"ValueError", "AttributeError"}
          /\ last'.arg.type = "str" => last'.result = "ValueError"
          /\ last'.io = <<>>
          /\ UNCHANGED <<dev, cache>>]_vars

C9_Witness ==
    /\ last.op = "scan_output_channel"
    /\ last.arg = Str(<<"x", "x">>)
    /\ last.result = "ValueError"
    /\ last.io = <<>>
    /\ _remote_str = "cc"

AnalogueOutputs == {OutA, OutB}

\* C10: setChannel given the analogue output OutA or OutB succeeds, writes
\* the channel, makes the scan range unbounded and prints a warning; while
\* the device's channel is an analogue output, setAmplitude, setOffset,
\* setStart and setEnd accept every value.
C10_AnalogueOutputUnbounded ==
    /\ (last.op = "scan_output_channel"
        /\ last.arg \in {OutputChannelValue(c) : c \in AnalogueOutputs})
           => /\ last.result = "ok"
              /\ Channel(dev) = last.arg.n
              /\ Written(last.io) = last.arg.n
              /\ _scan_range = Unbounded
              /\ "print" \in Kinds(last.io)
    /\ (Channel(dev) \in AnalogueOutputs
        /\ last.op \in {"scan_amplitude", "scan_offset", "scan_start", "scan_end"})
           => last.result = "ok"

C10_Witness ==
    /\ Channel(dev) = OutA
    /\ _scan_range = Unbounded
    /\ last.op = "scan_amplitude" /\ last.arg = 22
    /\ last.result = "ok"
    /\ Amplitude(dev) = 22

\* the spellings of an addressee, and the addressee a spelling names
CurrentNames == {Str(<<"c", "c">>), Str(<<"C", "C">>), Str(<<"C", "c">>)}
PiezoNames == {Str(<<"p", "c">>), Str(<<"P", "C">>), Str(<<"P", "c">>)}
Addressee(val) ==
    IF val \in CurrentNames \cup {OutputChannelValue(CC)} THEN "cc" ELSE "pc"
NodeOf(unit) == "laser1.dl." \o unit \o ".external_input"
NoTransportAccess(io) ==
    Kinds(io) \cap {"get", "get-failed", "set", "set-failed"} = {}

\* C11: select given cc or pc in any letter case succeeds, puts the cursor
\* on that remote, accesses no transport and changes neither the device nor
\* the remotes' records; given the remote the cursor is already on, it
\* leaves the cursor as it was and a read of enabled returns what it
\* returned before.
C11_SelectIdempotentAnyCase ==
    [][(last'.op = "remote_select" /\ last'.arg \in CurrentNames \cup PiezoNames) =>
          /\ last'.result = "ok"
          /\ _remote_str' = Addressee(last'.arg)
          /\ _remote_unit' = NodeOf(Addressee(last'.arg))
          /\ NoTransportAccess(last'.io)
          /\ dev' = dev
          /\ _remote_parameters' = _remote_parameters
          /\ _remote_str = Addressee(last'.arg) =>
                 /\ UNCHANGED <<_remote_str, _remote_unit>>
                 /\ remote_enabled' = remote_enabled]_vars

C11_Witness ==
    /\ last.op = "remote_select" /\ last.arg = Str(<<"C", "c">>)
    /\ last.result = "ok"
    /\ _remote_str = "cc"
    /\ dev["laser1.dl.cc.external_input.enabled"] = TRUE
    /\ dev["laser1.dl.pc.external_input.enabled"] = FALSE
    /\ remote_enabled = TRUE

\* the call was given neither a name nor a value of an addressee
NoAddressee == last'.arg \notin CurrentNames \cup PiezoNames \cup SelectMembers

\* C12 as stated: select given cc or pc in any letter case, or the
\* enumerated value CC or PC, puts the cursor on that remote; given anything
\* else it fails with ValueError and leaves the cursor where it was.
C12_SelectAcceptsNameOrValue ==
    [][last'.op = "remote_select" =>
          /\ ~NoAddressee =>
                 /\ last'.result = "ok"
                 /\ _remote_str' = Addressee(last'.arg)
                 /\ _remote_unit' = NodeOf(Addressee(last'.arg))
          /\ NoAddressee =>
                 /\ last'.result = "ValueError"
                 /\ UNCHANGED <<_remote_str, _remote_unit>>]_vars

\* C12 amended: select given the string cc or pc in any letter case puts
\* the cursor on that remote; given any other string it fails with
\* ValueError, and given anything that is no string, the enumerated values
\* CC and PC included, it fails with AttributeError; a failing select leaves
\* the cursor where it was.
C12_SelectAcceptsNameOnly ==
    [][last'.op = "remote_select" =>
          /\ last'.arg \in CurrentNames \cup PiezoNames =>
                 /\ last'.result = "ok"
                 /\ _remote_str' = Addressee(last'.arg)
                 /\ _remote_unit' = NodeOf(Addressee(last'.arg))
          /\ (last'.arg.type = "str" /\ NoAddressee) =>
                 /\ last'.result = "ValueError"
                 /\ UNCHANGED <<_remote_str, _remote_unit>>
          /\ last'.arg.type # "str" =>
                 /\ last'.result = "AttributeError"
                 /\ UNCHANGED <<_remote_str, _remote_unit>>]_vars

C12_Witness ==
    /\ last.op = "remote_select" /\ last.arg = OutputChannelValue(CC)
    /\ last.result = "AttributeError"
    /\ _remote_str = "pc"

RemoteSetters == {"remote_enabled", "remote_factor", "remote_signal"}
RemoteFields == {"enabled", "factor", "signal"}
PathsOf(unit) == {NodeOf(unit) \o "." \o f : f \in RemoteFields}

\* all of the device but the addressed remote, and every record but the
\* addressed remote's, are as before
OnlyAddressedChanged(unit) ==
    /\ \A path \in DOMAIN dev \ PathsOf(unit) : dev'[path] = dev[path]
    /\ DOMAIN _remote_parameters' = DOMAIN _remote_parameters
    /\ \A u \in DOMAIN _remote_parameters \ {unit} :
           _remote_parameters'[u] = _remote_parameters[u]

\* C13: setEnabled, setFactor and setSignal change the device parameters
\* and the cached record of the remote the cursor is on and of no other, and
\* do not move the cursor; select changes no device parameter and no
\* remote's record.
C13_CursorNonDestructive ==
    [][/\ last'.op \in RemoteSetters =>
              /\ OnlyAddressedChanged(_remote_str)
              /\ UNCHANGED <<_remote_str, _remote_unit>>
       /\ last'.op = "remote_select" =>
              /\ dev' = dev
              /\ _remote_parameters' = _remote_parameters]_vars

C13_Witness ==
    /\ last.op = "remote_factor" /\ last.result = "ok"
    /\ _remote_str = "pc"
    /\ dev["laser1.dl.pc.external_input.factor"] = 10
    /\ dev["laser1.dl.cc.external_input.factor"] = 1
    /\ "cc" \in DOMAIN _remote_parameters /\ "pc" \in DOMAIN _remote_parameters
    /\ _remote_parameters["pc"].factor = 10
    /\ _remote_parameters["cc"].factor = 1
    /\ _remote_parameters["cc"].enabled = TRUE

\* the place in io of the event of a kind on a path
Pos(io, kind, path) == CHOOSE i \in 1..Len(io) : io[i][1] = kind /\ io[i][2] = path
Before(io, kind, path) == Pos(io, kind, path) < Pos(io, "mirror", "_scan_range")

\* C14: an open() that succeeds opens the transport before anything else,
\* reads the voltage and current limits and the scan channel before it
\* computes the scan range, and leaves the limits, the scan record and the
\* records of both remotes as the device has them and the scan range that
\* of the channel it has just read under the limits it has just read.
C14_OpenPopulatesInOrder ==
    (last.op \in {"open", "__init__"} /\ last.result = "ok") =>
        /\ conn = "open"
        /\ last.io[1][1] = "open"
        /\ Before(last.io, "get", "laser1.dl.pc.voltage_min")
        /\ Before(last.io, "get", "laser1.dl.pc.voltage_max")
        /\ Before(last.io, "get", "laser1.dl.cc.current_clip")
        /\ Before(last.io, "get", "laser1.scan.output_channel")
        /\ _lims = LimitsOf(dev)
        /\ _scan_parameters = ScanDict(dev)
        /\ DOMAIN _remote_parameters = {"cc", "pc"}
        /\ \A unit \in {"cc", "pc"} : _remote_parameters[unit] = RemoteDict(dev, unit)
        /\ _scan_range = ActiveRange(Channel(dev), LimitsOf(dev))
        /\ last.io[Pos(last.io, "mirror", "_scan_range")][3] = _scan_range

C14_Witness ==
    /\ last.op = "open" /\ last.result = "ok"
    /\ externals = 1
    /\ Channel(dev) = CC
    /\ dev["laser1.dl.cc.current_clip"] = 6
    /\ _scan_range = <<Num(0), Num(6)>>

\* C15: the transport's close() is invoked only while the transport is
\* open: never when it was never opened, and not again by a second close().
C15_TransportClosedOncePerOpen ==
    [][(last'.op \in {"close", "__exit__"} /\ "close" \in Kinds(last'.io))
           => conn = "open"]_vars

\* C16: once the with statement has been left, by the end of its body, by a
\* failure in its body or by a failure of the open() in the constructor, the
\* transport is closed.
C16_ScopeLeftTransportClosed ==
    scope = "left" => conn = "closed"

\* the device parameter behind each key of the scan record
ScanPathOf ==
    ("enabled" :> "laser1.scan.enabled")
    @@ ("output channel" :> "laser1.scan.output_channel")
    @@ ("frequency" :> "laser1.scan.frequency")
    @@ ("amplitude" :> "laser1.scan.amplitude")
    @@ ("offset" :> "laser1.scan.offset")
    @@ ("start" :> "laser1.scan.start")
    @@ ("end" :> "laser1.scan.end")

\* a scan record that holds, under the seven keys, what the device holds
AsOnDevice(record) ==
    /\ DOMAIN record = DOMAIN ScanPathOf
    /\ \A key \in DOMAIN ScanPathOf : record[key] = dev[ScanPathOf[key]]

\* C17: after a get_all_parameters that succeeds, the scan section of the
\* dict it returned and the cached scan record both hold, for all seven
\* fields, the device's values, also when the device was changed from
\* outside since the cache was last written.
C17_AllParametersRereadScan ==
    (last.op = "get_all_parameters" /\ last.result = "ok") =>
        /\ snapshot.taken
        /\ AsOnDevice(SnapshotScan)
        /\ AsOnDevice(_scan_parameters)

C17_Witness ==
    /\ last.op = "get_all_parameters" /\ last.result = "ok"
    /\ externals = 1
    /\ Channel(dev) = OutA
    /\ SnapshotScan["output channel"] = OutA
    /\ _scan_parameters["output channel"] = OutA

\* C18: a scan setter or remote setter called after get_all_parameters has
\* returned leaves the scan section and the analogue remote section of the
\* returned dict as they were.
C18_SnapshotNeverMutated ==
    [][(snapshot.taken /\ last'.op \in MirrorOps) =>
          /\ SnapshotScan' = SnapshotScan
          /\ SnapshotRemote' = SnapshotRemote]_vars

\* the path each name is saved under
TargetOf ==
    (<<"x">> :> <<"x", ".", "j", "s", "o", "n">>)
    @@ (<<"x", ".", "j", "s", "o", "n">> :> <<"x", ".", "j", "s", "o", "n">>)
    @@ (<<"y">> :> <<"y", ".", "j", "s", "o", "n">>)

\* C19: save_parameters(name) never overwrites: when the path of name (with
\* .json appended when missing) exists, the call fails, with RuntimeError
\* once its reads of the device have succeeded, and every file is as
\* before; it writes a file, the one of that path with the device's scan in
\* it, only when the path did not exist; no other call touches the files.
C19_SaveNeverOverwrites ==
    [][/\ last'.op = "save_parameters" =>
              LET path == TargetOf[last'.arg]
              IN  /\ path \in DOMAIN files =>
                         /\ last'.result \in {"RuntimeError", "TransportError"}
                         /\ "get-failed" \notin Kinds(last'.io)
                                => last'.result = "RuntimeError"
                         /\ files' = files
                  /\ files' # files =>
                         /\ path \notin DOMAIN files
                         /\ last'.result = "ok"
                  /\ last'.result = "ok" =>
                         /\ DOMAIN files' = DOMAIN files \cup {path}
                         /\ \A f \in DOMAIN files : files'[f] = files[f]
                         /\ AsOnDevice(files'[path].scan)
       /\ last'.op # "save_parameters" => files' = files]_vars

C19_Witness ==
    /\ last.op = "save_parameters" /\ last.arg = <<"x">>
    /\ last.result = "RuntimeError"
    /\ <<"x", ".", "j", "s", "o", "n">> \in DOMAIN files
    /\ files[<<"x", ".", "j", "s", "o", "n">>].scan["start"] = -2
    /\ dev["laser1.scan.start"] = 2

\* a session without a setting: its setpoint setter raises RuntimeError
\* without any access, its two getters return None without any access, and
\* its two bounds in the limits are None
CapabilityAbsent(setter, getters, lo, hi) ==
    /\ last.op = setter => (last.result = "RuntimeError" /\ last.io = <<>>)
    /\ last.op \in getters =>
           /\ last.result = "ok"
           /\ last.io = <<<<"return", last.op, None>>>>
    /\ lo = None /\ hi = None

\* C20: on a session without the wavelength (temperature) setting, the
\* setpoint setter fails with RuntimeError whatever its argument and without
\* any transport access, the setpoint and actual getters return None without
\* any transport access, and the limits hold None for the wavelength
\* (temperature) bounds.
C20_AbsentCapability ==
    /\ ~wl_setting_present =>
           CapabilityAbsent("wavelength_setpoint",
                            {"wavelength_setpoint.get", "wavelength_actual.get"},
                            _lims.wlmin, _lims.wlmax)
    /\ ~temp_setting_present =>
           CapabilityAbsent("temp_setpoint",
                            {"temp_setpoint.get", "temp_actual.get"},
                            _lims.tmin, _lims.tmax)

C20_Witness ==
    /\ ~wl_setting_present /\ temp_setting_present
    /\ last.op = "wavelength_setpoint" /\ last.arg = None
    /\ last.result = "RuntimeError"
    /\ _lims.tmin = Num(15) /\ _lims.wlmin = None

\* a call of step_through_scan_range
StepCall == last'.op = "step_through_scan_range"

End(d) == d["laser1.scan.end"]

\* the transport did all it was asked to
TransportHeld(io) == Kinds(io) \cap {"open-failed", "get-failed", "set-failed"} = {}

\* the three initial values were read: np.linspace was reached
InitialValuesRead(io) ==
    \E i \in 1..Len(io) : io[i][1] = "linspace" \/ io[i] = Interrupted("np.linspace")

\* the offset, amplitude and end on the device before the call lie within
\* the scan range of the session that steps
RangeInvariants ==
    /\ Amplitude(dev) >= 0
    /\ EnvelopeWithin(Offset(dev), Amplitude(dev), _scan_range')
    /\ _check_value(End(dev), _scan_range')

CleanupRan(io) == \E i \in 1..Len(io) : io[i] = Printed("Restore initial state")

\* the device's scan offset and amplitude are those of before the call
Restored == Offset(dev') = Offset(dev) /\ Amplitude(dev') = Amplitude(dev)

\* the interrupt, if any, came while the try statement was running its body
InterruptedInTryOnly(io) ==
    \A i \in 1..Len(io) :
        io[i][1] = "interrupt" =>
            /\ io[i] \notin {Interrupted("np.linspace"),
                             Interrupted("Restore initial state")}
            /\ \A j \in 1..(i - 1) : io[j] # Printed("Restore initial state")

\* C21: a call of step_through_scan_range on a session whose device offset,
\* amplitude and end lie within its scan range, the transport holding, that
\* has read its three initial values runs its cleanup and leaves the
\* device's scan offset and amplitude as they were before the call, whether
\* the loop completed, broke on OutOfRangeError, or a KeyboardInterrupt came
\* at any point after the initial values were read.
C21_RestoredOnEveryExit ==
    [][(StepCall /\ TransportHeld(last'.io) /\ InitialValuesRead(last'.io)
        /\ RangeInvariants)
           => (CleanupRan(last'.io) /\ Restored)]_vars

\* what the try statement does give: the same when the interrupt, if any,
\* came inside the try body
StepRestoredWhenInterruptedInTry ==
    [][(StepCall /\ TransportHeld(last'.io) /\ InitialValuesRead(last'.io)
        /\ RangeInvariants /\ InterruptedInTryOnly(last'.io))
           => (CleanupRan(last'.io) /\ Restored)]_vars

\* the function constructed its own session: DLCcontrol(ip) returned
OwnSessionOpened ==
    /\ last'.arg.dlc = "None"
    /\ \E i \in 1..Len(last'.io) : last'.io[i][1] = "mirror" /\ last'.io[i][2] = "_scan_range"

\* C26: step_through_scan_range never closes a session it was given, and
\* closes the session it constructed itself however it is left, a transport
\* failure while reading the initial values or while restoring included.
C26_ReleasesOnlyItsOwnSession ==
    [][StepCall =>
          /\ last'.arg.dlc = "given" => ("close" \notin Kinds(last'.io) /\ conn' = conn)
          /\ OwnSessionOpened => conn' = "closed"]_vars

\* the part that holds: a session that was given is never closed, and the
\* function's own session is closed when the finally clause runs to its end
StepClosesOwnAfterRestore ==
    [][StepCall =>
          /\ last'.arg.dlc = "given" => ("close" \notin Kinds(last'.io) /\ conn' = conn)
          /\ (OwnSessionOpened /\ last'.result \in {"ok", "OutOfRangeError"}
              /\ CleanupRan(last'.io))
                 => /\ conn' = "closed"
                    /\ last'.io[Len(last'.io)] = <<"close", "connection", "open">>]_vars

\* lo <= val <= hi
Inclusive(lo, val, hi) == Le(lo, Num(val)) /\ Le(Num(val), hi)

\* the call succeeds when val lies within [lo, hi], bounds included, and
\* fails with OutOfRangeError otherwise
SucceedsIffWithin(lo, hi) ==
    /\ last'.result \in {"ok", "OutOfRangeError"}
    /\ last'.result = "ok" <=> Inclusive(lo, last'.arg, hi)

\* C22: over a transport that holds, setFrequency(f) succeeds exactly when
\* fmin <= f <= fmax, and setStart(s) and setEnd(e) succeed exactly when the
\* value lies within the session's scan range, the bounds included and
\* whatever the amplitude and offset are; otherwise they fail with
\* OutOfRangeError.
C22_RangeChecksInclusive ==
    [][/\ last'.op = "scan_frequency" => SucceedsIffWithin(_lims.fmin, _lims.fmax)
       /\ last'.op \in {"scan_start", "scan_end"} =>
              SucceedsIffWithin(_scan_range[1], _scan_range[2])]_vars

\* setStart at the upper bound of the voltage range succeeds, far outside
\* the envelope [-2, 2] of offset 0 and amplitude 4
C22_Witness ==
    /\ last.op = "scan_start" /\ last.arg = 10 /\ last.result = "ok"
    /\ _scan_range = <<Num(-10), Num(10)>>
    /\ Offset(dev) = 0 /\ Amplitude(dev) = 4
    /\ dev["laser1.scan.start"] = 10
    /\ dev["laser1.scan.frequency"] = FMAX

\* the call read the button and found it disabled
ButtonFoundDisabled(io) ==
    \E i \in 1..Len(io) : io[i] = <<"get", "emission_button_enabled", FALSE>>

\* C23: setCurrentEnabled(true) that finds the emission button disabled
\* prints the warning and goes on to write the enabled flag; it succeeds when
\* the transport takes the write, the device then holding the flag, and
\* fails with the transport's error, the device unchanged, when the
\* transport rejects it.
C23_EnableWritesThroughWarning ==
    [][(last'.op = "current_enabled" /\ last'.arg = TRUE /\ ButtonFoundDisabled(last'.io))
          => LET io == last'.io
                 write == io[Len(io)]
             IN  /\ \E i \in 1..(Len(io) - 1) : io[i] = EmissionWarning
                 /\ write \in {SetEvent("laser1.dl.cc.enabled", TRUE),
                               SetFailed("laser1.dl.cc.enabled", TRUE)}
                 /\ last'.result = (IF write[1] = "set" THEN "ok" ELSE "TransportError")
                 /\ dev' = IF write[1] = "set"
                           THEN [dev EXCEPT !["laser1.dl.cc.enabled"] = TRUE]
                           ELSE dev]_vars

C23_Witness ==
    /\ last.op = "current_enabled" /\ last.arg = TRUE /\ last.result = "ok"
    /\ ButtonFoundDisabled(last.io)
    /\ dev["emission_button_enabled"] = FALSE
    /\ dev["laser1.dl.cc.enabled"] = TRUE

\* a call of get_scan_parameters
ScanReadCall == last'.op = "get_scan_parameters"

\* C24 as stated: get_scan_parameters issues no get() and no set(), and
\* what it returns and caches is what the cache held, whatever has become of
\* the device.
C24_ScanGetAllFromCache ==
    [][ScanReadCall =>
          /\ NoTransportAccess(last'.io)
          /\ _scan_parameters' = _scan_parameters]_vars

\* C24 amended: get_scan_parameters asks the device: it issues the seven
\* get() of the scan parameters in order and no set(), and when all return
\* the cached record it returns is the one just read from the device,
\* changes from outside included; when a get() fails the transport's error
\* propagates and the cached record stays as it was.  The device is never
\* changed.
C24_ScanGetAllFromDevice ==
    [][ScanReadCall =>
          /\ dev' = dev
          /\ NoSetIssued(last'.io)
          /\ last'.result \in {"ok", "TransportError"}
          /\ last'.result = "ok" =>
                 /\ last'.io = [i \in 1..Len(ScanPaths) |->
                                   <<"get", ScanPaths[i], dev[ScanPaths[i]]>>]
                 /\ _scan_parameters' = ScanDict(dev)
          /\ last'.result = "TransportError" =>
                 /\ "get-failed" \in Kinds(last'.io)
                 /\ _scan_parameters' = _scan_parameters]_vars

\* the amplitude changed from outside to 2 is what the call returns
C24_Witness ==
    /\ externals = 1
    /\ last.op = "get_scan_parameters" /\ last.result = "ok"
    /\ Amplitude(dev) = 2
    /\ _scan_parameters["amplitude"] = 2
    /\ Len(last.io) = Len(ScanPaths)

\* the calls that populate the remotes' records
RemotePopulate == {"open", "get_remote_parameters"}

\* the one set() of the call went to a parameter of the pc remote, which is
\* the only parameter of the device that changed
WrotePiezoRemote ==
    /\ \E i \in 1..Len(last'.io) :
           last'.io[i][1] = "set" /\ last'.io[i][2] \in PathsOf("pc")
    /\ \A path \in DOMAIN dev \ PathsOf("pc") : dev'[path] = dev[path]

\* C25: open() and get_remote_parameters, when they return, leave the cursor
\* on the pc remote whatever it was on before, so that a remote setter called
\* next writes to the pc remote; get_all_parameters leaves the cursor and
\* both remotes' records as they were.
C25_PopulateLeavesCursorOnPiezo ==
    [][/\ (last'.op \in RemotePopulate /\ last'.result = "ok") =>
              /\ _remote_str' = "pc"
              /\ _remote_unit' = RemoteNode("pc")
              /\ DOMAIN _remote_parameters' = {"cc", "pc"}
       /\ (last.op \in RemotePopulate /\ last.result = "ok"
           /\ last'.op \in RemoteSetters /\ last'.result = "ok") => WrotePiezoRemote
       /\ last'.op = "get_all_parameters" => UNCHANGED remote]_vars

\* the cursor was put on cc, the remotes were read again, and setEnabled
\* then reached the pc remote
C25_Witness ==
    /\ last.op = "remote_enabled" /\ last.arg = TRUE /\ last.result = "ok"
    /\ _remote_str = "pc"
    /\ dev["laser1.dl.pc.external_input.enabled"] = TRUE
    /\ dev["laser1.dl.cc.external_input.enabled"] = FALSE
    /\ dev["laser1.dl.cc.external_input.factor"] = 10
    /\ snapshot.taken

====
